---- MODULE Spec2Model ----
(***************************************************************************)
(* CIF catalog: staging, change detection and stage-to-generation          *)
(* promotion (cif/intake.py, cif/catalog.py), and the read queries over    *)
(* the artifact and generation tables.                                     *)
(*                                                                         *)
(* Tables are modelled as Spanner tables.  stage is kept as the sequence   *)
(* of rows in insertion order: insert_stage_batch inserts one row per      *)
(* listed tuple, each with its own uuid4().hex.  artifact is keyed by      *)
(* artifact_id ("insert or ignore" skips existing keys).  generation is    *)
(* keyed by (source_id, generation_id, artifact_id).  Timestamps are       *)
(* integers counting microseconds, the resolution of a Python datetime.    *)
(* Fingerprint.content_length and content_type are copied along with       *)
(* version by every statement and appear in no predicate; rows carry       *)
(* version only.                                                           *)
(*                                                                         *)
(* Ingestion.ingest (cif/ingestion.py) runs Intake.intake and, when it     *)
(* returns a generation, Disaggregation.disaggregate (cif/disaggregation.py)*)
(* which extracts in process or persists and publishes one message per     *)
(* (artifact, extractor).  Worker.__call__ (cif/worker.py) is the callback *)
(* of the subscriber for these messages.                                   *)
(***************************************************************************)
EXTENDS Integers, Sequences, FiniteSets, TLC

(* ---------------------------- bounds ---------------------------------- *)
\* rows per staged batch (Intake.BATCH_SIZE scaled down to the model)
BatchSize == 2
\* total number of rows ever staged
MaxItems == 4
\* number of intake cycles
MaxCycles == 3
\* deliveries the subscription makes in all
MaxDeliveries == 3
\* lines of a blob
MaxLines == 4
\* data rows of a CSV artifact
MaxRows == 3
\* calls of SubSupport.start and SubSupport.stop
MaxCalls == 7
\* artifacts new in the generation that is disaggregated
MaxNew == 2
\* rows of one insert_deferred_disaggregations call (5000 in the code)
DeferredBatchSize == 2

Sources == {"s1", "s2"}
ExternalIds == {"e1", "e2"}
Versions == {"v1", "v2"}

\* what list_artifacts() can yield: finite sequences of (external_id, version)
\* tuples (e1 in two versions, e2 in one)
Tuples == {t \in [external_id : ExternalIds, version : Versions] :
              t.external_id = "e1" \/ t.version = "v1"}
Listings(n) == UNION {[1..k -> Tuples] : k \in 0..n}
\* a listing names every tuple at most once, or one of them twice
LongestListing == Cardinality(Tuples) + 1

\* SourceModel.disaggregation_mode and SourceModel.extractors of the two
\* sources (rows of table source, which the core never writes)
DisaggregationMode(source_id) == IF source_id = "s1" THEN "IMMEDIATE" ELSE "DEFERRED"
SourceExtractors(source_id) ==
    IF source_id = "s1" THEN <<"HTMLExtractor">>
    ELSE <<"HTMLExtractor", "HTMLLinkExtractor">>

\* the default of parameter limit of Disaggregation.disaggregate
DisaggregateLimit == 100

\* callback threads of the subscriber (max_messages)
Threads == {"t1", "t2"}
\* the messages of the subscription
Messages == {"m1", "m2"}

NoDisaggregation == [pc |-> "idle", source_id |-> "none", generation_id |-> 0,
                     created_on |-> 0, offset |-> 0, count |-> 0]

\* a DeferredDisaggregationModel that stands for "no model"
NoFields == [source_id |-> "none", generation_id |-> 0, artifact_id |-> 0,
             extractor_type |-> "none", fragment_id |-> 0, start_byte |-> -1,
             end_byte |-> -1, created_on |-> 0, status |-> "PENDING",
             delivery_attempt |-> 0]

\* no model is on its way
NoRoundTrip == [pc |-> "none", model |-> NoFields, data |-> <<>>, parsed |-> <<>>]

\* no generator of calc_line_chunks runs
NoChunker == [pc |-> "none", file |-> <<>>, lines_per_chunk |-> 1, line_num |-> 0,
              start |-> 0, buf |-> 0, chunks |-> <<>>]

\* no CSVRowExtractor.calc_fragments call runs
NoCsv == [pc |-> "none", file |-> <<>>, first |-> 0, last |-> 0, fieldnames |-> <<>>,
          content |-> <<>>, fragments |-> <<>>]

\* SubSupport.__init__: self.f = None (0), no streaming pull; no call yet
NoSub == [f |-> 0, active |-> {}, stopping |-> FALSE, calls |-> 0, op |-> "none",
          out |-> "none"]

\* no Disaggregation.disaggregate call is followed
NoRun == [pc |-> "none", mode |-> "IMMEDIATE", limit |-> 1, offset |-> 0, count |-> 0,
          page |-> <<>>, msgs |-> <<>>, persisted |-> 0, sent |-> 0,
          offsets |-> <<>>, handlers |-> <<>>, dispatched |-> <<>>]

\* no Catalog.search_fragments_key call is followed
NoSearch == [pc |-> "none", source_id |-> [hex |-> 0, tail |-> ""], query |-> <<>>,
             fragment_key |-> {}, out |-> [kind |-> "none", rows |-> {}]]

\* no filter_text_content call yet, calc_base_stop_words not yet computed
NoWords == [cache |-> <<>>, calls |-> 0, config |-> <<>>, text |-> <<>>, out |-> <<>>]

\* a callback thread that has not handled a message yet
IdleHandler == [pc |-> "idle", msg |-> "none", attempt |-> 0, parsed |-> NoFields,
                timeout |-> "none", extracted |-> FALSE, raised |-> FALSE,
                status |-> "none", written_attempt |-> 0, out |-> "none"]

NoCycle == [source_id |-> "none", stage_id |-> 0, created_on |-> 0,
            listing |-> <<>>, todo |-> <<>>, batch_id |-> 0, num_batches |-> 0,
            latest |-> [found |-> FALSE, generation_id |-> 0, created_on |-> 0],
            ingest |-> TRUE]

VARIABLES
    stage,        \* table stage, rows in insertion order
    artifact,     \* table artifact
    generation,   \* table generation
    pc,           \* position of the running Intake.intake call
    cur,          \* locals of the running Intake.intake call
    ret,          \* outcome of the last finished Intake.intake call
    nextId,       \* next value of uuid4().hex
    nextStage,    \* next stage_id
    lastNow,      \* per source, the last value now() returned to its intake
    born,         \* history: <<source_id, generation_id, artifact_id>> of
                  \* every artifact row a promotion actually inserted
    dis,          \* locals of the running Disaggregation.disaggregate call
    disCalls,     \* history: the invocations of Disaggregation.disaggregate
    fragment,     \* table fragment
    deferred,     \* table deferred_disaggregation
    published,    \* payloads published to the work topic
    bus,          \* the messages of the work subscription
    handler,      \* per callback thread, the running Worker.__call__
    rt,           \* a DeferredDisaggregationModel on its way through the topic
    chunker,      \* the running generator of BucketConnector.calc_line_chunks
    csv,          \* the running CSVRowExtractor.calc_fragments call
    sub,          \* a SubSupport and the streaming pulls of its client
    run,          \* a Disaggregation.disaggregate call, statement by statement
    search,       \* a Catalog.search_fragments_key call and the tables it reads
    words         \* the cached base stop words and the last filter_text_content call

\* the catalog tables and locals of intake
ivars == <<stage, artifact, generation, pc, cur, ret, nextStage, lastNow, born>>
\* written by Ingestion.ingest after intake
dvars == <<dis, disCalls>>
\* written by disaggregation and by the worker
tvars == <<fragment, deferred, published>>
\* the subscription and its callbacks
wvars == <<bus, handler>>
\* the query and the text filter
qvars == <<search, words>>
\* the components exercised on their own
pvars == <<rt, chunker, csv, sub, run, qvars>>

vars == <<stage, artifact, generation, pc, cur, ret, nextId, nextStage, lastNow, born,
          dis, disCalls, fragment, deferred, published, bus, handler, pvars>>

(* ------------------------- helper operators --------------------------- *)
Min(a, b) == IF a < b THEN a ELSE b

Range(f) == {f[i] : i \in DOMAIN f}

\* unix_micros(timestamp_trunc(created_on, MICROSECOND)) on a timestamp that
\* already counts whole microseconds
UnixMicros(ts) == ts

\* cif.util.batcher: the first batch of at most n items of a sequence
FirstBatch(xs, n) == SubSeq(xs, 1, Min(n, Len(xs)))
RestAfterBatch(xs, n) == SubSeq(xs, Min(n, Len(xs)) + 1, Len(xs))

(* ----------------------------- queries -------------------------------- *)
GenerationIds(source_id) ==
    {g.generation_id : g \in {x \in generation : x.source_id = source_id}}

\* select * from generation where source_id = @source_id
\* order by generation_id desc limit 1, read into a GenerationModel
GetLatestGeneration(source_id) ==
    LET ids == GenerationIds(source_id) IN
    IF ids = {} THEN [found |-> FALSE, generation_id |-> 0, created_on |-> 0]
    ELSE LET top == CHOOSE i \in ids : \A j \in ids : j <= i
             row == CHOOSE g \in generation :
                        g.source_id = source_id /\ g.generation_id = top
         IN [found |-> TRUE, generation_id |-> top, created_on |-> row.created_on]

\* generation g inner join artifact a on source_id and artifact_id,
\* restricted to one generation of one source
BoundRows(source_id, generation_id) ==
    {ga \in generation \X artifact :
        /\ ga[1].source_id = ga[2].source_id
        /\ ga[1].artifact_id = ga[2].artifact_id
        /\ ga[1].source_id = source_id
        /\ ga[1].generation_id = generation_id}

\* variant: the rows of every stage_id of the source
StageIndexes_AnyStage(stage_id, source_id) ==
    {i \in DOMAIN stage : stage[i].source_id = source_id}

\* stage s where s.stage_id = @stage_id and s.source_id = @source_id
StageIndexes(stage_id, source_id) ==
    {i \in DOMAIN stage : stage[i].stage_id = stage_id /\ stage[i].source_id = source_id}

\* variant: the subquery does not compare version
CountInsertedUpdated_AnyVersion(stage_id, source_id, generation_id) ==
    Cardinality({i \in StageIndexes(stage_id, source_id) :
        ~ \E ga \in BoundRows(stage[i].source_id, generation_id) :
            ga[2].external_id = stage[i].external_id})

CountInsertedUpdated(stage_id, source_id, generation_id) ==
    Cardinality({i \in StageIndexes(stage_id, source_id) :
        ~ \E ga \in BoundRows(stage[i].source_id, generation_id) :
            /\ ga[2].external_id = stage[i].external_id
            /\ ga[2].version = stage[i].version})

\* variant: the generation_id filter is missing, every generation counts
CountDeleted_AnyGeneration(stage_id, source_id, generation_id) ==
    Cardinality({ga \in UNION {BoundRows(source_id, g) : g \in GenerationIds(source_id)} :
        ~ \E i \in StageIndexes(stage_id, source_id) :
            /\ stage[i].source_id = ga[2].source_id
            /\ stage[i].external_id = ga[2].external_id
            /\ stage[i].version = ga[2].version})

\* variant: the outer join runs from stage to the generation, counting the
\* staged rows the generation does not bind
CountDeleted_FromStage(stage_id, source_id, generation_id) ==
    Cardinality({i \in StageIndexes(stage_id, source_id) :
        ~ \E ga \in BoundRows(source_id, generation_id) :
            /\ stage[i].external_id = ga[2].external_id
            /\ stage[i].version = ga[2].version})

CountDeleted(stage_id, source_id, generation_id) ==
    Cardinality({ga \in BoundRows(source_id, generation_id) :
        ~ \E i \in StageIndexes(stage_id, source_id) :
            /\ stage[i].source_id = ga[2].source_id
            /\ stage[i].external_id = ga[2].external_id
            /\ stage[i].version = ga[2].version})

\* Catalog.get_artifacts: artifacts whose id is bound to the generation
GetArtifacts(source_id, generation_id) ==
    {a \in artifact : \E g \in generation :
        /\ g.artifact_id = a.artifact_id
        /\ g.source_id = source_id
        /\ g.generation_id = generation_id}

\* variant: the join does not compare created_on
GetNewArtifacts_AnyCreatedOn(source_id, generation_id) ==
    {a \in artifact : \E g \in generation :
        /\ g.artifact_id = a.artifact_id
        /\ g.source_id = source_id
        /\ g.generation_id = generation_id}

\* Catalog.get_new_artifacts: artifact inner join generation on artifact_id
\* and created_on
GetNewArtifacts(source_id, generation_id) ==
    {a \in artifact : \E g \in generation :
        /\ g.artifact_id = a.artifact_id
        /\ g.created_on = a.created_on
        /\ g.source_id = source_id
        /\ g.generation_id = generation_id}

\* one side of the join of Catalog.diff_generations:
\* generation g inner join artifact a0 on a0.artifact_id = g.artifact_id
DiffSide(source_id, generation_id) ==
    {[external_id |-> a0.external_id, artifact_id |-> a0.artifact_id] :
        a0 \in {a \in artifact : \E g \in generation :
                    /\ a.artifact_id = g.artifact_id
                    /\ g.source_id = source_id
                    /\ g.generation_id = generation_id}}

\* the all-NULL row a full outer join supplies for a missing side
NullSide == [external_id |-> "NULL", artifact_id |-> 0]

\* variant: the case expression has no DELETED branch
DiffChange_NoDeleted(a, b) ==
    IF a.external_id = "NULL" THEN "INSERTED"
    ELSE IF b.external_id # "NULL" /\ a.artifact_id # b.artifact_id THEN "UPDATED"
    ELSE "NONE"

\* the case expression of Catalog.diff_generations
DiffChange(a, b) ==
    IF a.external_id = "NULL" THEN "INSERTED"
    ELSE IF b.external_id = "NULL" THEN "DELETED"
    ELSE IF a.artifact_id # b.artifact_id THEN "UPDATED"
    ELSE "NONE"

DiffRecord(a, b) ==
    [external_id |-> IF a.external_id # "NULL" THEN a.external_id ELSE b.external_id,
     artifact_id_a |-> a.artifact_id,
     artifact_id_b |-> b.artifact_id,
     change |-> DiffChange(a, b)]

\* Catalog.diff_generations: a full outer join b on a.external_id = b.external_id
DiffGenerations(source_id, generation_id_a, generation_id_b) ==
    LET A == DiffSide(source_id, generation_id_a)
        B == DiffSide(source_id, generation_id_b)
    IN  {DiffRecord(ab[1], ab[2]) :
            ab \in {x \in A \X B : x[1].external_id = x[2].external_id}}
        \cup {DiffRecord(a, NullSide) :
            a \in {x \in A : \A b \in B : b.external_id # x.external_id}}
        \cup {DiffRecord(NullSide, b) :
            b \in {x \in B : \A a \in A : a.external_id # x.external_id}}

(* ------------------------------ state --------------------------------- *)
\* the catalog is empty and nothing runs
Empty ==
    /\ stage = <<>>
    /\ artifact = {}
    /\ generation = {}
    /\ pc = "idle"
    /\ cur = NoCycle
    /\ ret = [kind |-> "init", generation_id |-> 0]
    /\ nextId = 1
    /\ nextStage = 1
    /\ lastNow = [s \in Sources |-> 0]
    /\ born = {}
    /\ dis = NoDisaggregation
    /\ disCalls = <<>>
    /\ fragment = {}
    /\ deferred = {}
    /\ published = {}
    /\ bus = <<>>
    /\ handler = [t \in Threads |-> IdleHandler]

Init ==
    /\ Empty
    /\ rt = NoRoundTrip
    /\ chunker = NoChunker
    /\ csv = NoCsv
    /\ sub = NoSub
    /\ run = NoRun
    /\ search = NoSearch
    /\ words = NoWords

\* Ingestion.ingest, line 23, and Intake.intake, lines 40-41: fresh
\* stage_id, created_on = now(); the connector's listing is the input of
\* the cycle
StartIntake(source_id, listing) ==
    /\ pc = "idle"
    /\ dis.pc # "run"
    /\ nextStage <= MaxCycles
    /\ cur' = [source_id |-> source_id, stage_id |-> nextStage,
               created_on |-> lastNow[source_id] + 1,
               listing |-> listing, todo |-> listing,
               batch_id |-> 0, num_batches |-> 0, latest |-> NoCycle.latest,
               ingest |-> TRUE]
    /\ lastNow' = [lastNow EXCEPT ![source_id] = @ + 1]
    /\ nextStage' = nextStage + 1
    /\ pc' = "stage"
    /\ UNCHANGED <<stage, artifact, generation, ret, nextId, born, dvars, tvars, wvars, pvars>>

\* one iteration of the loop of Intake._stage: Catalog.insert_stage_batch
StageBatch ==
    /\ pc = "stage"
    /\ cur.todo # <<>>
    /\ LET batch == FirstBatch(cur.todo, BatchSize)
           rows == [k \in 1..Len(batch) |->
                       [stage_id |-> cur.stage_id, batch_id |-> cur.batch_id,
                        source_id |-> cur.source_id,
                        external_id |-> batch[k].external_id,
                        version |-> batch[k].version,
                        created_on |-> cur.created_on,
                        artifact_id |-> nextId + k - 1]]
       IN /\ stage' = stage \o rows
          /\ nextId' = nextId + Len(batch)
          /\ cur' = [cur EXCEPT !.todo = RestAfterBatch(cur.todo, BatchSize),
                                !.batch_id = @ + 1]
    /\ UNCHANGED <<artifact, generation, pc, ret, nextStage, lastNow, born, dvars, tvars, wvars, pvars>>

\* variant: the test for an empty stage is missing
NoDataStaged_Never(num_batches) == FALSE

\* Intake.intake, line 44: nothing was staged
NoDataStaged(num_batches) == num_batches = 0

\* variant: Ingestion.ingest calls disaggregate whatever intake returned
GenerationReturned_Always(r) == TRUE

\* Ingestion.ingest, line 24: generation is not None
GenerationReturned(r) == r.kind = "generation"

\* Ingestion.ingest, lines 24-25, after intake returned r (g is the
\* GenerationModel when r is one): the call of Disaggregation.disaggregate.
\* Nothing follows an Intake.intake that was not called by Ingestion.ingest
IngestContinue(r, g) ==
    IF cur.ingest /\ GenerationReturned(r)
    THEN /\ dis' = [pc |-> "run", source_id |-> cur.source_id,
                    generation_id |-> g.generation_id, created_on |-> g.created_on,
                    offset |-> 0, count |-> 0]
         /\ disCalls' = Append(disCalls, [stage_id |-> cur.stage_id,
                                          source_id |-> cur.source_id,
                                          generation_id |-> g.generation_id])
    ELSE UNCHANGED <<dis, disCalls>>

\* Intake.intake, lines 44-71: end of staging, get_latest_generation and the
\* two counts; decides between "no change" and promotion
DetectChanges ==
    /\ pc = "stage"
    /\ cur.todo = <<>>
    /\ LET num_batches == cur.batch_id
           latest == GetLatestGeneration(cur.source_id)
           num_inserted_updated ==
               CountInsertedUpdated(cur.stage_id, cur.source_id, latest.generation_id)
           num_deleted == CountDeleted(cur.stage_id, cur.source_id, latest.generation_id)
       IN IF NoDataStaged(num_batches)
          THEN \* line 46: returns before the latest generation is read
               /\ pc' = "idle"
               /\ ret' = [kind |-> "none", generation_id |-> 0]
               /\ cur' = [cur EXCEPT !.num_batches = num_batches]
               /\ IngestContinue(ret', latest)
          ELSE IF latest.found /\ num_inserted_updated = 0 /\ num_deleted = 0
          THEN /\ pc' = "idle"
               /\ ret' = [kind |-> "none", generation_id |-> 0]
               /\ cur' = [cur EXCEPT !.num_batches = num_batches, !.latest = latest]
               /\ IngestContinue(ret', latest)
          ELSE /\ pc' = "promote"
               /\ ret' = ret
               /\ cur' = [cur EXCEPT !.num_batches = num_batches, !.batch_id = 0,
                                     !.latest = latest]
               /\ UNCHANGED dvars
    /\ UNCHANGED <<stage, artifact, generation, nextId, nextStage, lastNow, born, tvars, wvars, pvars>>

(* ---- Catalog._insert_artifact_generation_batch_helper: the passes ---- *)
BatchIndexes(st, stage_id, source_id, batch_id) ==
    {i \in DOMAIN st : /\ st[i].stage_id = stage_id
                       /\ st[i].batch_id = batch_id
                       /\ st[i].source_id = source_id}

\* variant: the subqueries of pass 1 do not compare version
Matching_AnyVersion(art, r) ==
    {a \in art : /\ a.source_id = r.source_id
                 /\ a.external_id = r.external_id}

\* artifact rows agreeing with a stage row on source_id, external_id, version
Matching(art, r) ==
    {a \in art : /\ a.source_id = r.source_id
                 /\ a.external_id = r.external_id
                 /\ a.version = r.version}

\* pass 1 fails when the scalar subquery yields more than one row
Pass1Fails(st, art, idxs) == \E i \in idxs : Cardinality(Matching(art, st[i])) > 1

\* variant: pass 1 leaves every provisional artifact_id in place
Pass1_KeepProvisional(st, art, idxs) == st

\* pass 1: update stage set artifact_id = (existing id) where exists (...)
Pass1(st, art, idxs) ==
    [i \in DOMAIN st |->
        IF i \in idxs /\ Matching(art, st[i]) # {}
        THEN [st[i] EXCEPT !.artifact_id = (CHOOSE a \in Matching(art, st[i]) : TRUE).artifact_id]
        ELSE st[i]]

ArtifactRow(r) ==
    [artifact_id |-> r.artifact_id, source_id |-> r.source_id,
     external_id |-> r.external_id, version |-> r.version,
     created_on |-> r.created_on]

\* pass 2: insert or ignore into artifact (select ... from stage): the rows
\* whose artifact_id is not yet a key of artifact
Pass2(st, art, idxs) ==
    {ArtifactRow(st[i]) : i \in {j \in idxs :
                              \A a \in art : a.artifact_id # st[j].artifact_id}}

GenerationRow(r) ==
    [source_id |-> r.source_id, generation_id |-> UnixMicros(r.created_on),
     artifact_id |-> r.artifact_id, created_on |-> r.created_on]

\* the key of table generation
GenerationKey(g) == <<g.source_id, g.generation_id, g.artifact_id>>

\* pass 3: insert into generation (select ... from stage)
Pass3(st, idxs) == {GenerationRow(st[i]) : i \in idxs}

\* a plain insert fails when a key is already present or given twice
Pass3Fails(st, gen, idxs) ==
    \/ \E i \in idxs : \E g \in gen : GenerationKey(g) = GenerationKey(GenerationRow(st[i]))
    \/ \E i, j \in idxs :
           i # j /\ GenerationKey(GenerationRow(st[i])) = GenerationKey(GenerationRow(st[j]))

\* variant: the loop stops one batch early, range(num_batches - 1)
BatchesToPromote_SkipLast(num_batches) == 0..(num_batches - 2)

\* range(num_batches) of Intake._create_new_generation
BatchesToPromote(num_batches) == 0..(num_batches - 1)

Raise ==
    /\ pc' = "idle"
    /\ ret' = [kind |-> "raised", generation_id |-> 0]

\* one iteration of Intake._create_new_generation:
\* Catalog.insert_artifact_generation_batch as one transaction
PromoteBatch ==
    /\ pc = "promote"
    /\ cur.batch_id \in BatchesToPromote(cur.num_batches)
    /\ LET idxs == BatchIndexes(stage, cur.stage_id, cur.source_id, cur.batch_id)
           st1 == Pass1(stage, artifact, idxs)
           new == Pass2(st1, artifact, idxs)
       IN IF Pass1Fails(stage, artifact, idxs) \/ Pass3Fails(st1, generation, idxs)
          THEN \* the statement error rolls the transaction back and propagates
               /\ Raise
               /\ UNCHANGED <<stage, artifact, generation, cur, born>>
          ELSE /\ stage' = st1
               /\ artifact' = artifact \cup new
               /\ generation' = generation \cup Pass3(st1, idxs)
               /\ born' = born \cup
                     {<<a.source_id, UnixMicros(cur.created_on), a.artifact_id>> : a \in new}
               /\ cur' = [cur EXCEPT !.batch_id = @ + 1]
               /\ UNCHANGED <<pc, ret>>
    /\ UNCHANGED <<nextId, nextStage, lastNow, dvars, tvars, wvars, pvars>>

\* the promotion transaction of a batch fails in the database (deadline
\* exceeded, unavailable): nothing of the batch is written, intake raises.
\* Modelled for the batches after the first, where it leaves a part of the
\* cycle committed; a failure of the first transaction leaves artifact and
\* generation as a cycle without changes does.
PromoteBatchError ==
    /\ pc = "promote"
    /\ cur.batch_id > 0
    /\ cur.batch_id \in BatchesToPromote(cur.num_batches)
    /\ Raise
    /\ UNCHANGED <<stage, artifact, generation, cur, nextId, nextStage, lastNow, born,
                   dvars, tvars, wvars, pvars>>

\* Intake.intake, lines 72-80: return get_latest_generation(source_id), and
\* Ingestion.ingest, lines 24-25
ReturnGeneration ==
    /\ pc = "promote"
    /\ cur.batch_id \notin BatchesToPromote(cur.num_batches)
    /\ pc' = "idle"
    /\ LET g == GetLatestGeneration(cur.source_id)
       IN /\ ret' = [kind |-> IF g.found THEN "generation" ELSE "raised",
                     generation_id |-> g.generation_id]
          /\ IngestContinue(ret', g)
    /\ UNCHANGED <<stage, artifact, generation, cur, nextId, nextStage, lastNow, born,
                   tvars, wvars, pvars>>

(* ----------------- cif/extractor.py: calc_fragments -------------------- *)
\* the aggregation level each extractor class gives its fragments
AggregationLevel(extractor_type) ==
    CASE extractor_type = "HTMLExtractor" -> "DOCUMENT"
      [] extractor_type = "HTMLLinkExtractor" -> "LINK"
      [] extractor_type = "HTMLTitleExtractor" -> "TITLE"
      [] OTHER -> "ROW"

\* the content behind a version: the number of <a href> elements of the page
LinkCount(version) == IF version = "v1" THEN 1 ELSE 0

\* how many fragments calc_fragments returns: HTMLExtractor one for the
\* document, HTMLLinkExtractor one per link
FragmentCount(a, extractor_type) ==
    IF extractor_type = "HTMLLinkExtractor" THEN LinkCount(a.version) ELSE 1

\* calc_fragments: every fragment gets its own uuid4().hex and seq_no 0,
\* whatever fragment_id the caller passes (text_content is not modelled)
CalcFragments(a, extractor_type, fragment_id, first_id) ==
    {[source_id |-> a.source_id, artifact_id |-> a.artifact_id,
      fragment_id |-> first_id + k - 1,
      aggregation_level |-> AggregationLevel(extractor_type), seq_no |-> 0] :
        k \in 1..FragmentCount(a, extractor_type)}

(* ------------------ cif/disaggregation.py: disaggregate ---------------- *)
\* the rows of a query result as a sequence (here in artifact_id order)
RECURSIVE Sum(_, _)
Sum(f, S) == IF S = {} THEN 0
             ELSE LET x == CHOOSE y \in S : TRUE IN f[x] + Sum(f, S \ {x})

RECURSIVE OrderById(_)
OrderById(S) ==
    IF S = {} THEN <<>>
    ELSE LET m == CHOOSE a \in S : \A b \in S : a.artifact_id <= b.artifact_id
         IN <<m>> \o OrderById(S \ {m})

\* variant: the page starts one row late
SelectPage_DropFirst(rows, limit, offset) ==
    SubSeq(rows, offset + 2, Min(offset + limit, Len(rows)))

\* SpannerSupport.select_many: "limit @limit offset @offset" and the offset of
\* the next page, -1 standing for None
SelectPage(rows, limit, offset) ==
    SubSeq(rows, offset + 1, Min(offset + limit, Len(rows)))
NextPageOffset(page, limit, offset) == IF Len(page) = limit THEN offset + limit ELSE -1

\* the nested loops "for artifact in artifacts: for extractor in extractors"
Combos(arts, exts) ==
    [k \in 1..(Len(arts) * Len(exts)) |->
        <<arts[((k - 1) \div Len(exts)) + 1], exts[((k - 1) % Len(exts)) + 1]>>]

\* disaggregate_all: disaggregate_one on every combination, each call
\* inserting the fragments calc_fragments returned (calc_fragment_keys returns
\* [] for every source_id but the ones it lists, so fragment_key stays empty)
RECURSIVE FragmentsOf(_, _)
FragmentsOf(combos, first_id) ==
    IF combos = <<>> THEN {}
    ELSE LET c == Head(combos)
         IN CalcFragments(c[1], c[2], 0, first_id)
               \cup FragmentsOf(Tail(combos), first_id + FragmentCount(c[1], c[2]))

\* defer_all: the DeferredDisaggregationModel of one combination; None is 0
\* for fragment_id and -1 for start_byte and end_byte
DeferredRow(source_id, generation_id, created_on, a, extractor_type) ==
    [source_id |-> source_id, generation_id |-> generation_id,
     artifact_id |-> a.artifact_id, extractor_type |-> extractor_type,
     fragment_id |-> 0, start_byte |-> -1, end_byte |-> -1,
     created_on |-> created_on, status |-> "PENDING", delivery_attempt |-> 0]

\* the key of table deferred_disaggregation
DeferredKey(r) ==
    <<r.source_id, r.generation_id, r.artifact_id, r.extractor_type,
      r.fragment_id, r.start_byte, r.end_byte>>

\* insert_deferred_disaggregations: insert_or_update of the rows
InsertDeferred(tbl, rows) ==
    {r \in tbl : \A n \in rows : DeferredKey(n) # DeferredKey(r)} \cup rows

(* ---------- DeferredDisaggregationModel as a JSON document ------------ *)
\* the values of a JSON document
JsonNull == [t |-> "null", v |-> 0]
JsonString(s) == [t |-> "string", v |-> s]
JsonNumber(n) == [t |-> "number", v |-> n]

\* a datetime as ISO 8601 text and back
IsoFormat(created_on) == <<"T", created_on>>
FromIsoFormat(text) == text[2]

\* Optional[str] = None and Optional[int] = None: None is written as null
DumpOptional(v, none, t) == IF v = none THEN JsonNull ELSE [t |-> t, v |-> v]

\* model_dump_json: every field of the model, None as null, the datetime
\* as ISO text, the StrEnum as its value
JsonOf(r) ==
    [source_id |-> JsonString(r.source_id),
     generation_id |-> JsonNumber(r.generation_id),
     artifact_id |-> JsonString(r.artifact_id),
     extractor_type |-> JsonString(r.extractor_type),
     fragment_id |-> DumpOptional(r.fragment_id, 0, "string"),
     start_byte |-> DumpOptional(r.start_byte, -1, "number"),
     end_byte |-> DumpOptional(r.end_byte, -1, "number"),
     created_on |-> JsonString(IsoFormat(r.created_on)),
     status |-> JsonString(r.status),
     delivery_attempt |-> JsonNumber(r.delivery_attempt)]

\* msg.model_dump_json().encode("utf-8"): bytes that decode as UTF-8 to the
\* JSON document of the model
ModelDumpJson(r) == [utf8 |-> TRUE, json |-> TRUE, doc |-> JsonOf(r)]

\* validation of one field: a required field must be present with a value
\* of its type; an optional one may be absent or null
ValidRequired(doc, f, t) == f \in DOMAIN doc /\ doc[f].t = t
ValidOptional(doc, f, t) == f \notin DOMAIN doc \/ doc[f].t \in {t, "null"}

\* variant: a null is read as the empty value of the type, not as None
ParseOptional_NullAsZero(doc, f, none) ==
    IF f \in DOMAIN doc /\ doc[f].t # "null" THEN doc[f].v ELSE 0

\* the value of an optional field: None when absent or null
ParseOptional(doc, f, none) ==
    IF f \in DOMAIN doc /\ doc[f].t # "null" THEN doc[f].v ELSE none

\* a field with a default: the default when absent
ParseDefault(doc, f, default) == IF f \in DOMAIN doc THEN doc[f].v ELSE default

DisaggregationStatus == {"PENDING", "DONE", "FAILED"}

\* DeferredDisaggregationModel.model_validate_json on a JSON document:
\* the model, or ValidationError
ModelValidateJson(doc) ==
    IF /\ ValidRequired(doc, "source_id", "string")
       /\ ValidRequired(doc, "generation_id", "number")
       /\ ValidRequired(doc, "artifact_id", "string")
       /\ ValidRequired(doc, "extractor_type", "string")
       /\ ValidRequired(doc, "created_on", "string")
       /\ ValidOptional(doc, "fragment_id", "string")
       /\ ValidOptional(doc, "start_byte", "number")
       /\ ValidOptional(doc, "end_byte", "number")
       /\ ("status" \in DOMAIN doc =>
              doc["status"].t = "string" /\ doc["status"].v \in DisaggregationStatus)
       /\ ("delivery_attempt" \in DOMAIN doc => doc["delivery_attempt"].t = "number")
    THEN [kind |-> "ok",
          model |-> [source_id |-> doc["source_id"].v,
                     generation_id |-> doc["generation_id"].v,
                     artifact_id |-> doc["artifact_id"].v,
                     extractor_type |-> doc["extractor_type"].v,
                     fragment_id |-> ParseOptional(doc, "fragment_id", 0),
                     start_byte |-> ParseOptional(doc, "start_byte", -1),
                     end_byte |-> ParseOptional(doc, "end_byte", -1),
                     created_on |-> FromIsoFormat(doc["created_on"].v),
                     status |-> ParseDefault(doc, "status", "PENDING"),
                     delivery_attempt |-> ParseDefault(doc, "delivery_attempt", 0)]]
    ELSE [kind |-> "ValidationError", model |-> NoFields]

\* Worker.parse_message: message.data.decode("utf-8"), then
\* model_validate_json
ParseMessage(data) ==
    IF ~data.utf8 THEN [kind |-> "UnicodeDecodeError", model |-> NoFields]
    ELSE IF ~data.json THEN [kind |-> "ValidationError", model |-> NoFields]
    ELSE ModelValidateJson(data.doc)

\* one iteration of the loop of Disaggregation.disaggregate: a page of
\* get_new_artifacts dispatched by the mode of the source
DisaggregatePage ==
    /\ dis.pc = "run"
    /\ LET rows == OrderById(GetNewArtifacts(dis.source_id, dis.generation_id))
           page == SelectPage(rows, DisaggregateLimit, dis.offset)
           next == NextPageOffset(page, DisaggregateLimit, dis.offset)
           combos == Combos(page, SourceExtractors(dis.source_id))
       IN /\ IF DisaggregationMode(dis.source_id) = "DEFERRED"
             THEN LET msgs == {DeferredRow(dis.source_id, dis.generation_id,
                                           dis.created_on, c[1], c[2]) : c \in Range(combos)}
                  IN /\ deferred' = InsertDeferred(deferred, msgs)
                     /\ published' = published \cup {ModelDumpJson(m) : m \in msgs}
                     /\ UNCHANGED <<fragment, nextId>>
             ELSE LET new == FragmentsOf(combos, nextId)
                  IN /\ fragment' = fragment \cup new
                     /\ nextId' = nextId + Cardinality(new)
                     /\ UNCHANGED <<deferred, published>>
          /\ dis' = [dis EXCEPT !.count = @ + Len(combos),
                                !.offset = next,
                                !.pc = IF next = -1 THEN "done" ELSE "run"]
    /\ UNCHANGED <<stage, artifact, generation, pc, cur, ret, nextStage, lastNow, born,
                   disCalls, wvars, pvars>>

Next ==
    \/ \E s \in Sources :
          \E l \in Listings(Min(MaxItems - Len(stage), LongestListing)) : StartIntake(s, l)
    \/ StageBatch
    \/ DetectChanges
    \/ PromoteBatch
    \/ PromoteBatchError
    \/ ReturnGeneration
    \/ DisaggregatePage

Spec == Init /\ [][Next]_vars

(* ------------------------- cif/worker.py ------------------------------- *)
\* the catalog a worker runs against: source s2 (DEFERRED, two extractors)
\* after one ingestion cycle that listed (e1, v2), a page without links
WorkerTuple == [external_id |-> "e1", version |-> "v2"]
WorkerArtifact == [artifact_id |-> 1, source_id |-> "s2", external_id |-> "e1",
                   version |-> "v2", created_on |-> 1]
WorkerGeneration == [source_id |-> "s2", generation_id |-> 1, artifact_id |-> 1,
                     created_on |-> 1]
WorkerDeferred ==
    {DeferredRow("s2", 1, 1, WorkerArtifact, x) : x \in Range(SourceExtractors("s2"))}

\* the state Ingestion.ingest of s2 leaves behind
Ingested ==
    /\ stage = <<[stage_id |-> 1, batch_id |-> 0, source_id |-> "s2",
                  external_id |-> "e1", version |-> "v2", created_on |-> 1,
                  artifact_id |-> 1]>>
    /\ artifact = {WorkerArtifact}
    /\ generation = {WorkerGeneration}
    /\ pc = "idle"
    /\ cur = [source_id |-> "s2", stage_id |-> 1, created_on |-> 1,
              listing |-> <<WorkerTuple>>, todo |-> <<>>, batch_id |-> 1,
              num_batches |-> 1, latest |-> NoCycle.latest, ingest |-> TRUE]
    /\ ret = [kind |-> "generation", generation_id |-> 1]
    /\ nextId = 2
    /\ nextStage = 2
    /\ lastNow = [s \in Sources |-> IF s = "s2" THEN 1 ELSE 0]
    /\ born = {<<"s2", 1, 1>>}
    /\ dis = [pc |-> "done", source_id |-> "s2", generation_id |-> 1, created_on |-> 1,
              offset |-> -1, count |-> 2]
    /\ disCalls = <<[stage_id |-> 1, source_id |-> "s2", generation_id |-> 1]>>
    /\ fragment = {}
    /\ deferred = WorkerDeferred
    /\ published = {ModelDumpJson(r) : r \in WorkerDeferred}

\* what the topic can carry: the payloads disaggregation published, bytes
\* that are not UTF-8, text that is not a JSON document of the model, and
\* well-formed payloads naming a source, generation, artifact or extractor
\* that does not exist
PublishedRow == DeferredRow("s2", 1, 1, WorkerArtifact, "HTMLExtractor")
PublishedPayloads == {ModelDumpJson(r) : r \in WorkerDeferred}
Payloads ==
    PublishedPayloads
    \cup {[utf8 |-> FALSE, json |-> FALSE, doc |-> JsonOf(NoFields)],
          [utf8 |-> TRUE, json |-> FALSE, doc |-> JsonOf(NoFields)],
          ModelDumpJson([PublishedRow EXCEPT !.source_id = "s9"]),
          ModelDumpJson([PublishedRow EXCEPT !.generation_id = 9]),
          ModelDumpJson([PublishedRow EXCEPT !.artifact_id = 9]),
          ModelDumpJson([PublishedRow EXCEPT !.extractor_type = "CSVRowExtractor"])}

\* a subscription with (counted) or without a dead-letter policy, holding
\* one message of any payload and one that disaggregation published
WInit ==
    /\ Ingested
    /\ \E counted \in BOOLEAN :
       \E data \in {d \in [Messages -> Payloads] : d["m2"] \in PublishedPayloads} :
          bus = [m \in Messages |->
                    [data |-> data[m], counted |-> counted, deliveries |-> 0,
                     acks |-> 0, nacks |-> 0]]
    /\ handler = [t \in Threads |-> IdleHandler]
    /\ rt = NoRoundTrip
    /\ chunker = NoChunker
    /\ csv = NoCsv
    /\ sub = NoSub
    /\ run = NoRun
    /\ search = NoSearch
    /\ words = NoWords

\* Message.delivery_attempt: None (0) without a dead-letter policy
MessageAttempt(b) == IF b.counted THEN b.deliveries + 1 ELSE 0

\* variant: the counter of the message is taken as it is
DeliveryAttempt_Raw(attempt) == attempt

\* message.delivery_attempt or 1
DeliveryAttempt(attempt) == IF attempt = 0 THEN 1 ELSE attempt

\* the subscriber hands a message that is not acknowledged to a free callback
\* thread; a message can be handed out again while it is being handled
Deliver(t, m) ==
    /\ handler[t].pc = "idle"
    /\ bus[m].acks = 0
    /\ Sum([x \in Messages |-> bus[x].deliveries], Messages) < MaxDeliveries
    /\ handler' = [handler EXCEPT ![t] =
                      [IdleHandler EXCEPT !.pc = "received", !.msg = m,
                                          !.attempt = MessageAttempt(bus[m])]]
    /\ bus' = [bus EXCEPT ![m].deliveries = @ + 1]
    /\ UNCHANGED <<ivars, pvars, nextId, dvars, tvars>>

\* Worker.check_references: which of the references do not resolve
SourceMissing(p) == p.source_id \notin Sources
GenerationMissing(p) ==
    ~ \E g \in generation : g.source_id = p.source_id /\ g.generation_id = p.generation_id
ArtifactMissing(p) == ~ \E a \in artifact : a.artifact_id = p.artifact_id

\* variant: check_references looks at the source only
ReferencesMissing_SourceOnly(p) == SourceMissing(p)

ReferencesMissing(p) == SourceMissing(p) \/ GenerationMissing(p) \/ ArtifactMissing(p)

\* Worker.check_extractor
ExtractorMissing(p) == p.extractor_type \notin Range(SourceExtractors(p.source_id))

\* the end of Worker.__call__: message.ack(), message.nack(), or an exception
\* that leaves the callback with neither
Finish(t, out, status, timeout) ==
    /\ handler' = [handler EXCEPT ![t].pc = "idle", ![t].out = out,
                                  ![t].status = status,
                                  ![t].written_attempt =
                                      IF status = "none" THEN 0
                                      ELSE DeliveryAttempt(handler[t].attempt),
                                  ![t].timeout =
                                      IF timeout = "none" THEN @ ELSE timeout]
    /\ bus' = [bus EXCEPT ![handler[t].msg].acks = IF out = "acked" THEN @ + 1 ELSE @,
                          ![handler[t].msg].nacks = IF out = "nacked" THEN @ + 1 ELSE @]

\* handle_disaggregation_done / _failed_maybe_retry / _failed_no_retry: the
\* row a handler upserts
StatusRow(p, status, attempt) ==
    [p EXCEPT !.status = status, !.delivery_attempt = DeliveryAttempt(attempt)]

\* Worker.__call__, lines 38-41 and 76-86: parse_message, check_references,
\* new_disaggregation, check_extractor and the two discarding handlers
Receive(t) ==
    /\ handler[t].pc = "received"
    /\ LET parsed == ParseMessage(bus[handler[t].msg].data)
           p == parsed.model
       IN IF parsed.kind = "UnicodeDecodeError"
          THEN \* bytes.decode raises UnicodeDecodeError, which no clause catches
               /\ Finish(t, "escaped", "none", "none")
               /\ UNCHANGED deferred
          ELSE IF parsed.kind = "ValidationError"
          THEN \* ValidationError: handle_disaggregation_failed_no_retry(message, None)
               /\ Finish(t, "acked", "none", "none")
               /\ UNCHANGED deferred
          ELSE IF ReferencesMissing(p) \/ ExtractorMissing(p)
          THEN \* NotFoundError: handle_disaggregation_failed_no_retry
               /\ deferred' = InsertDeferred(deferred,
                                  {StatusRow(p, "FAILED", handler[t].attempt)})
               /\ handler' = [handler EXCEPT
                                 ![t].pc = "idle", ![t].out = "acked",
                                 ![t].parsed = p, ![t].status = "FAILED",
                                 ![t].written_attempt = DeliveryAttempt(handler[t].attempt)]
               /\ bus' = [bus EXCEPT ![handler[t].msg].acks = @ + 1]
          ELSE /\ handler' = [handler EXCEPT ![t].pc = "extract", ![t].parsed = p]
               /\ UNCHANGED <<bus, deferred>>
    /\ UNCHANGED <<ivars, pvars, nextId, dvars, fragment, published>>

\* a database call of lines 39-41 or of the discarding handler raises
\* DeadlineExceeded: the exception leaves the callback
ReceiveTimeout(t) ==
    /\ handler[t].pc = "received"
    /\ ParseMessage(bus[handler[t].msg].data).kind = "ok"
    /\ LET p == ParseMessage(bus[handler[t].msg].data).model
       IN \E step \in {"references"} \cup
                      (IF ReferencesMissing(p) \/ ExtractorMissing(p)
                       THEN {"status"} ELSE {}) :
             /\ handler' = [handler EXCEPT ![t].pc = "idle", ![t].out = "escaped",
                                           ![t].parsed = p, ![t].timeout = step]
    /\ UNCHANGED <<ivars, pvars, nextId, dvars, tvars, bus>>

\* Worker.__call__, lines 53-60: disaggregate_one returns
Extract(t) ==
    /\ handler[t].pc = "extract"
    /\ LET p == handler[t].parsed
           a == CHOOSE x \in artifact : x.artifact_id = p.artifact_id
           new == CalcFragments(a, p.extractor_type, p.fragment_id, nextId)
       IN /\ fragment' = fragment \cup new
          /\ nextId' = nextId + Cardinality(new)
    /\ handler' = [handler EXCEPT ![t].pc = "done", ![t].extracted = TRUE]
    /\ UNCHANGED <<ivars, pvars, dvars, deferred, published, bus>>

\* disaggregate_one raises before it has written: the connector or the
\* extractor fails ("extractor"), or insert_fragments exceeds its deadline
ExtractError(t) ==
    /\ handler[t].pc = "extract"
    /\ \E cause \in {"extractor", "fragments"} :
          handler' = [handler EXCEPT ![t].pc = "failed", ![t].raised = TRUE,
                                     ![t].timeout =
                                         IF cause = "fragments" THEN "fragments" ELSE @]
    /\ UNCHANGED <<ivars, pvars, nextId, dvars, tvars, bus>>

\* handle_disaggregation_done
MarkDone(t) ==
    /\ handler[t].pc = "done"
    /\ deferred' = InsertDeferred(deferred,
                       {StatusRow(handler[t].parsed, "DONE", handler[t].attempt)})
    /\ Finish(t, "acked", "DONE", "none")
    /\ UNCHANGED <<ivars, pvars, nextId, dvars, fragment, published>>

\* the upsert of handle_disaggregation_done exceeds its deadline: the
\* exception is caught at line 68
MarkDoneTimeout(t) ==
    /\ handler[t].pc = "done"
    /\ handler' = [handler EXCEPT ![t].pc = "failed", ![t].timeout = "status"]
    /\ UNCHANGED <<ivars, pvars, nextId, dvars, tvars, bus>>

\* handle_disaggregation_failed_maybe_retry
MarkFailed(t) ==
    /\ handler[t].pc = "failed"
    /\ deferred' = InsertDeferred(deferred,
                       {StatusRow(handler[t].parsed, "FAILED", handler[t].attempt)})
    /\ Finish(t, "nacked", "FAILED", "none")
    /\ UNCHANGED <<ivars, pvars, nextId, dvars, fragment, published>>

\* the upsert of handle_disaggregation_failed_maybe_retry exceeds its
\* deadline: the exception leaves the callback
MarkFailedTimeout(t) ==
    /\ handler[t].pc = "failed"
    /\ Finish(t, "escaped", "none", "status")
    /\ UNCHANGED <<ivars, pvars, nextId, dvars, tvars>>

WNext ==
    \/ \E t \in Threads : \E m \in Messages : Deliver(t, m)
    \/ \E t \in Threads : Receive(t)
    \/ \E t \in Threads : ReceiveTimeout(t)
    \/ \E t \in Threads : Extract(t)
    \/ \E t \in Threads : ExtractError(t)
    \/ \E t \in Threads : MarkDone(t)
    \/ \E t \in Threads : MarkDoneTimeout(t)
    \/ \E t \in Threads : MarkFailed(t)
    \/ \E t \in Threads : MarkFailedTimeout(t)

WorkerSpec == WInit /\ [][WNext]_vars

TypeOK ==
    /\ pc \in {"idle", "stage", "promote"}
    /\ \A a \in artifact : a.artifact_id < nextId
    /\ \A g \in generation : g.generation_id \in 1..MaxCycles

(* ------------------------- derived notions ---------------------------- *)
TupleOf(r) == [external_id |-> r.external_id, version |-> r.version]

\* the (external_id, version) pairs staged under a stage_id
StagedTuples(stage_id, source_id) ==
    {TupleOf(stage[i]) : i \in StageIndexes(stage_id, source_id)}

\* the (external_id, version) pairs of the artifacts bound to a generation
BoundTuples(source_id, generation_id) ==
    {TupleOf(ga[2]) : ga \in BoundRows(source_id, generation_id)}

\* staging of the running cycle is complete and change detection is next
ReadyToDetect == pc = "stage" /\ cur.todo = <<>>

(* ------------------------------ claims -------------------------------- *)

\* C1: when a cycle has staged exactly the (external_id, version) pairs bound
\* to the latest generation L of its source, intake returns None without
\* promoting: no artifact or generation row is written and the latest
\* generation is still L.
C1_NoOpReintake ==
    [][ ( /\ ReadyToDetect
          /\ cur.batch_id > 0
          /\ GetLatestGeneration(cur.source_id).found
          /\ StagedTuples(cur.stage_id, cur.source_id)
                = BoundTuples(cur.source_id, GetLatestGeneration(cur.source_id).generation_id) )
        => ( /\ pc' = "idle"
             /\ ret'.kind = "none"
             /\ artifact' = artifact
             /\ generation' = generation
             /\ GetLatestGeneration(cur.source_id)' = GetLatestGeneration(cur.source_id) )
      ]_vars

\* a cycle that staged exactly the pairs of the latest generation has returned
C1_Witness ==
    /\ pc = "idle"
    /\ ret.kind = "none"
    /\ cur.num_batches > 0
    /\ cur.latest.found
    /\ Cardinality(GenerationIds(cur.source_id)) > 1
    /\ StagedTuples(cur.stage_id, cur.source_id)
          = BoundTuples(cur.source_id, cur.latest.generation_id)

\* C2: the artifact table holds at most one artifact_id per
\* (source_id, external_id, version).
C2_ArtifactUnique ==
    \A a, b \in artifact :
        (a.source_id = b.source_id /\ a.external_id = b.external_id /\ a.version = b.version)
            => a.artifact_id = b.artifact_id

\* C3: an (external_id, version) pair bound to two generations of a source is
\* bound to the same artifact_id in both, and no step modifies or removes an
\* existing artifact row.
SameIdAcrossGenerations ==
    \A s \in Sources : \A g1, g2 \in GenerationIds(s) :
        g1 # g2 =>
            \A x \in BoundRows(s, g1), y \in BoundRows(s, g2) :
                TupleOf(x[2]) = TupleOf(y[2]) => x[2].artifact_id = y[2].artifact_id

C3_StableIdentity ==
    [][ SameIdAcrossGenerations' /\ (\A a \in artifact : a \in artifact') ]_vars

\* some artifact is bound to two generations of its source
C3_Witness ==
    \E g1, g2 \in generation :
        /\ g1.source_id = g2.source_id
        /\ g1.artifact_id = g2.artifact_id
        /\ g1.generation_id # g2.generation_id

\* no listing so far repeated an (external_id, version) tuple
NoRepeatedRows ==
    \A i, j \in DOMAIN stage :
        (i # j /\ stage[i].stage_id = stage[j].stage_id)
            => TupleOf(stage[i]) # TupleOf(stage[j])

\* C4: a generation is visible either with all staged rows of its cycle or
\* with none of them, no generation row is ever removed, and rows are added
\* only under the generation_id of the cycle that is being promoted (stated
\* for runs in which no listing repeats a tuple).
Promoted(i) == GenerationRow(stage[i]) \in generation

CycleAllOrNothing ==
    \A i, j \in DOMAIN stage :
        stage[i].stage_id = stage[j].stage_id => (Promoted(i) <=> Promoted(j))

C4_AtomicGeneration ==
    [][ NoRepeatedRows' =>
          /\ CycleAllOrNothing'
          /\ \A g \in generation : g \in generation'
          /\ \A g \in generation' \ generation :
                /\ pc = "promote"
                /\ g.source_id = cur.source_id
                /\ g.generation_id = UnixMicros(cur.created_on)
                /\ g.generation_id \notin GenerationIds(cur.source_id) \/ cur.batch_id > 0
      ]_vars

\* C5: when intake returns a generation, every listed tuple was staged in a
\* batch of the cycle, every staged row has its artifact row, the generation
\* of the cycle's created_on holds exactly one row per staged row, and the
\* pairs bound to it are the pairs the connector listed.
CycleDone == pc = "idle" /\ ret.kind = "generation"

CycleRows == StageIndexes(cur.stage_id, cur.source_id)

CycleGeneration ==
    {g \in generation :
        g.source_id = cur.source_id /\ g.generation_id = UnixMicros(cur.created_on)}

C5_GenerationIsSnapshot ==
    CycleDone =>
        /\ Cardinality(CycleRows) = Len(cur.listing)
        /\ \A i \in CycleRows : stage[i].batch_id \in 0..(cur.num_batches - 1)
        /\ \A i \in CycleRows : \E a \in artifact :
              /\ a.artifact_id = stage[i].artifact_id
              /\ a.source_id = stage[i].source_id
              /\ TupleOf(a) = TupleOf(stage[i])
        /\ CycleGeneration = {GenerationRow(stage[i]) : i \in CycleRows}
        /\ Cardinality(CycleGeneration) = Cardinality(CycleRows)
        /\ BoundTuples(cur.source_id, UnixMicros(cur.created_on)) = Range(cur.listing)

\* intake has returned the generation of a cycle of two batches
C5_Witness == CycleDone /\ cur.num_batches >= 2

\* C6: get_new_artifacts(S, G) returns exactly the artifacts whose row a
\* promotion into G inserted; each of them is bound to G and none has a
\* pair that an earlier generation of S bound.
BornIn(source_id, generation_id) ==
    {x[3] : x \in {y \in born : y[1] = source_id /\ y[2] = generation_id}}

C6_NewArtifacts ==
    \A s \in Sources : \A gid \in GenerationIds(s) :
        /\ {a.artifact_id : a \in GetNewArtifacts(s, gid)} = BornIn(s, gid)
        /\ \A a \in GetNewArtifacts(s, gid) :
              /\ a \in GetArtifacts(s, gid)
              /\ \A g2 \in GenerationIds(s) :
                    g2 < gid => TupleOf(a) \notin BoundTuples(s, g2)

\* a generation binds a new artifact next to one carried over
C6_Witness ==
    \E s \in Sources : \E gid \in GenerationIds(s) :
        /\ GetNewArtifacts(s, gid) # {}
        /\ GetNewArtifacts(s, gid) # GetArtifacts(s, gid)

\* C7: diff_generations returns exactly one record per external_id present
\* in A or B, INSERTED iff the external_id is absent in A, DELETED iff absent
\* in B, UPDATED iff in both with different artifact_id, NONE iff in both
\* with the same artifact_id (stated for runs in which no listing repeats a
\* tuple).
DiffClassified(source_id, ga, gb) ==
    LET d == DiffGenerations(source_id, ga, gb)
        inA(e) == \E x \in DiffSide(source_id, ga) : x.external_id = e
        inB(e) == \E x \in DiffSide(source_id, gb) : x.external_id = e
        exts == {x.external_id : x \in DiffSide(source_id, ga) \cup DiffSide(source_id, gb)}
    IN  /\ {r.external_id : r \in d} = exts
        /\ \A e \in exts : Cardinality({r \in d : r.external_id = e}) = 1
        /\ \A r \in d :
              /\ r.change = "INSERTED" <=> ~inA(r.external_id)
              /\ r.change = "DELETED" <=> ~inB(r.external_id)
              /\ r.change = "UPDATED" <=>
                    (inA(r.external_id) /\ inB(r.external_id)
                        /\ r.artifact_id_a # r.artifact_id_b)
              /\ r.change = "NONE" <=>
                    (inA(r.external_id) /\ inB(r.external_id)
                        /\ r.artifact_id_a = r.artifact_id_b)

C7_DiffClassification ==
    NoRepeatedRows => \A s \in Sources : \A ga, gb \in GenerationIds(s) : DiffClassified(s, ga, gb)

\* C8: diff_generations(A, A) yields only NONE records (stated for runs in
\* which no listing repeats a tuple).
C8_DiffReflexive ==
    NoRepeatedRows =>
        \A s \in Sources : \A g \in GenerationIds(s) :
            \A r \in DiffGenerations(s, g, g) : r.change = "NONE"

\* C9: the records of diff_generations(B, A) are those of diff_generations(A, B)
\* with artifact_id_a and artifact_id_b exchanged and INSERTED and DELETED
\* swapped.
Mirror(r) ==
    [external_id |-> r.external_id,
     artifact_id_a |-> r.artifact_id_b,
     artifact_id_b |-> r.artifact_id_a,
     change |-> CASE r.change = "INSERTED" -> "DELETED"
                  [] r.change = "DELETED" -> "INSERTED"
                  [] OTHER -> r.change]

DiffSymmetric ==
    \A s \in Sources : \A ga, gb \in GenerationIds(s) :
        {Mirror(r) : r \in DiffGenerations(s, ga, gb)} = DiffGenerations(s, gb, ga)

\* the diff reads the tables artifact and generation only: it is symmetric
\* at the start and after every step that writes one of the two
C9_DiffSymmetric ==
    /\ DiffSymmetric
    /\ [][<<artifact, generation>>' # <<artifact, generation>> => DiffSymmetric']_vars

\* two generations whose diff has an INSERTED and a DELETED record
C9_Witness ==
    \E s \in Sources : \E ga, gb \in GenerationIds(s) :
        /\ \E r \in DiffGenerations(s, ga, gb) : r.change = "INSERTED"
        /\ \E r \in DiffGenerations(s, ga, gb) : r.change = "DELETED"

\* C10: when the listing of a cycle is the latest generation L with the
\* version of exactly one external_id changed, intake promotes; when it
\* returns, the generation of the cycle is a new one, every unchanged tuple
\* is bound to the artifact_id L bound it to, and diff(L, new) has one
\* UPDATED record and NONE for the rest.  One artifact row is inserted.
\* the tuples of the listing that L does not bind
ChangedTuples ==
    {t \in Range(cur.listing) : t \notin BoundTuples(cur.source_id, cur.latest.generation_id)}

UpdateOfOne ==
    LET old == BoundRows(cur.source_id, cur.latest.generation_id)
        oldExts == {ga[2].external_id : ga \in old}
        newExts == {t.external_id : t \in Range(cur.listing)}
    IN  /\ cur.latest.found
        /\ Cardinality(old) = Cardinality(oldExts)
        /\ Len(cur.listing) = Cardinality(newExts)
        /\ oldExts = newExts
        /\ Cardinality(ChangedTuples) = 1

IdsBound(source_id, generation_id, t) ==
    {ga[2].artifact_id : ga \in {x \in BoundRows(source_id, generation_id) : TupleOf(x[2]) = t}}

UpdateOfOnePromoted ==
    LET s == cur.source_id
        L == cur.latest.generation_id
        gid == UnixMicros(cur.created_on)
        d == DiffGenerations(s, L, gid)
    IN  /\ gid # L
        /\ gid \in GenerationIds(s)
        /\ \A t \in Range(cur.listing) \ ChangedTuples :
              IdsBound(s, gid, t) = IdsBound(s, L, t)
        /\ Cardinality({r \in d : r.change = "UPDATED"}) = 1
        /\ \A r \in d : r.change \in {"UPDATED", "NONE"}

\* the cycle was not answered with "no change"
UpdateOfOneDetected ==
    (pc = "idle" /\ ret.kind = "none" /\ cur.num_batches > 0) => ~UpdateOfOne

C10_UpdateOne_Original ==
    /\ UpdateOfOneDetected
    /\ (CycleDone /\ UpdateOfOne) =>
          /\ UpdateOfOnePromoted
          /\ Cardinality(BornIn(cur.source_id, UnixMicros(cur.created_on))) = 1

\* C10 as amended: as above, but one artifact row is inserted only when no
\* artifact row of the changed (external_id, version) exists from an earlier
\* cycle; when one exists, none is inserted and its artifact_id is bound.
EarlierArtifacts(t) ==
    {a \in artifact : /\ a.source_id = cur.source_id
                      /\ TupleOf(a) = t
                      /\ a.created_on # cur.created_on}

C10_UpdateOne ==
    /\ UpdateOfOneDetected
    /\ (CycleDone /\ UpdateOfOne) =>
          /\ UpdateOfOnePromoted
          /\ \A t \in ChangedTuples :
                IF EarlierArtifacts(t) = {}
                THEN Cardinality(BornIn(cur.source_id, UnixMicros(cur.created_on))) = 1
                ELSE /\ BornIn(cur.source_id, UnixMicros(cur.created_on)) = {}
                     /\ IdsBound(cur.source_id, UnixMicros(cur.created_on), t)
                           = {a.artifact_id : a \in EarlierArtifacts(t)}

\* intake has returned the generation of a listing of two external_ids that
\* changed the version of one of them
C10_Witness == CycleDone /\ UpdateOfOne /\ Len(cur.listing) >= 2

\* C11: when the listing of a cycle is the latest generation L without one of
\* its external_ids (and not empty), the cycle counts 0 inserted or updated
\* rows and 1 deleted row and promotes; when intake returns, the generation is
\* a new one binding one artifact fewer than L, no artifact row was inserted,
\* get_new_artifacts of it is empty, and diff(L, new) has one DELETED record
\* and NONE for the rest.
DeletionOfOne ==
    LET old == BoundRows(cur.source_id, cur.latest.generation_id)
        oldExts == {ga[2].external_id : ga \in old}
        oldTuples == BoundTuples(cur.source_id, cur.latest.generation_id)
    IN  /\ cur.latest.found
        /\ Cardinality(old) = Cardinality(oldExts)
        /\ Len(cur.listing) >= 1
        /\ Len(cur.listing) = Cardinality(Range(cur.listing))
        /\ Range(cur.listing) \subseteq oldTuples
        /\ Len(cur.listing) = Cardinality(oldTuples) - 1

DeletionOfOnePromoted ==
    LET s == cur.source_id
        L == cur.latest.generation_id
        gid == UnixMicros(cur.created_on)
        d == DiffGenerations(s, L, gid)
    IN  /\ CountInsertedUpdated(cur.stage_id, s, L) = 0
        /\ CountDeleted(cur.stage_id, s, L) = 1
        /\ gid # L
        /\ gid \in GenerationIds(s)
        /\ ret.generation_id = gid
        /\ Cardinality(GetArtifacts(s, gid)) = Cardinality(GetArtifacts(s, L)) - 1
        /\ BornIn(s, gid) = {}
        /\ GetNewArtifacts(s, gid) = {}
        /\ Cardinality({r \in d : r.change = "DELETED"}) = 1
        /\ \A r \in d : r.change \in {"DELETED", "NONE"}

C11_DeleteOne ==
    /\ (pc = "idle" /\ ret.kind = "none" /\ cur.num_batches > 0) => ~DeletionOfOne
    /\ (pc = "promote" /\ DeletionOfOne) =>
          /\ CountInsertedUpdated(cur.stage_id, cur.source_id, cur.latest.generation_id) = 0
          /\ CountDeleted(cur.stage_id, cur.source_id, cur.latest.generation_id) = 1
    /\ (CycleDone /\ DeletionOfOne) => DeletionOfOnePromoted

\* intake has returned the generation of a listing that dropped one of the
\* two external_ids of the latest generation
C11_Witness == CycleDone /\ DeletionOfOne

\* C12: a cycle that lists n >= 1 artifacts for a source without a generation
\* is never answered with "no change"; when intake returns, the source has
\* exactly one generation, it binds n artifacts and all of them are new
\* artifacts of it; in IMMEDIATE mode the disaggregation that follows returns
\* n times the number of extractors and has written the fragments of every
\* (new artifact, extractor) combination.
FreshSourceDisaggregated ==
    LET s == cur.source_id
        exts == SourceExtractors(s)
    IN  /\ dis.count = Len(cur.listing) * Len(exts)
        /\ \A a \in GetNewArtifacts(s, ret.generation_id) : \A j \in DOMAIN exts :
              Cardinality({f \in fragment :
                              /\ f.source_id = s
                              /\ f.artifact_id = a.artifact_id
                              /\ f.aggregation_level = AggregationLevel(exts[j])})
                 = FragmentCount(a, exts[j])

C13_EmptyListing ==
    [][ (pc = "stage" /\ cur.listing = <<>>)
        => ( /\ pc' = "idle"
             /\ ret'.kind = "none"
             /\ cur'.latest = NoCycle.latest
             /\ stage' = stage
             /\ artifact' = artifact
             /\ generation' = generation
             /\ born' = born
             /\ dis' = dis
             /\ disCalls' = disCalls
             /\ fragment' = fragment
             /\ deferred' = deferred
             /\ published' = published )
      ]_vars

\* a cycle with an empty listing has returned for a source that has a generation
C13_Witness ==
    /\ pc = "idle"
    /\ ret.kind = "none"
    /\ cur.stage_id > 0
    /\ cur.listing = <<>>
    /\ GenerationIds(cur.source_id) # {}

\* C14: disaggregate is invoked at most once per cycle and not before intake
\* has returned; when intake has returned a generation the last invocation is
\* the one of this cycle with that generation; when intake returned None or
\* raised there is no invocation for the cycle; fragment,
\* deferred_disaggregation and the topic are written only by a running
\* disaggregate of a cycle whose intake returned a generation.
CallsOfCycle == {i \in DOMAIN disCalls : disCalls[i].stage_id = cur.stage_id}

IngestionOrdered ==
    /\ \A i, j \in DOMAIN disCalls : disCalls[i].stage_id = disCalls[j].stage_id => i = j
    /\ pc # "idle" => CallsOfCycle = {}
    /\ (pc = "idle" /\ ret.kind \in {"none", "raised"}) => CallsOfCycle = {}
    /\ CycleDone =>
          /\ CallsOfCycle = {Len(disCalls)}
          /\ disCalls[Len(disCalls)] = [stage_id |-> cur.stage_id,
                                        source_id |-> cur.source_id,
                                        generation_id |-> ret.generation_id]
    /\ dis.pc = "run" =>
          /\ CycleDone
          /\ dis.source_id = cur.source_id
          /\ dis.generation_id = ret.generation_id

C14_IngestionOrdering ==
    /\ []IngestionOrdered
    /\ [][ (fragment' # fragment \/ deferred' # deferred \/ published' # published)
           => (CycleDone /\ dis.pc = "run") ]_vars

\* both sources have been ingested: fragments were extracted in process for
\* one, messages published for the other, and a later cycle returned None
C14_Witness ==
    /\ fragment # {}
    /\ published # {}
    /\ pc = "idle"
    /\ ret.kind = "none"
    /\ cur.num_batches > 0

(* ------------------------------ worker -------------------------------- *)
\* parse_message fails: the bytes are not UTF-8, or the text is not a JSON
\* document of DeferredDisaggregationModel
Unparseable(data) == ParseMessage(data).kind # "ok"

\* C15: the handling of a message whose payload does not parse ends with the
\* message acked once by the handler and not nacked, with no write to the
\* catalog, no reference resolved and no extraction run.
C15_DiscardUnparseable ==
    [][ \A t \in Threads :
          ( /\ handler[t].pc = "received"
            /\ Unparseable(bus[handler[t].msg].data)
            /\ handler'[t] # handler[t] )
          => ( /\ handler'[t].pc = "idle"
               /\ handler'[t].out = "acked"
               /\ bus'[handler[t].msg].acks = bus[handler[t].msg].acks + 1
               /\ bus'[handler[t].msg].nacks = bus[handler[t].msg].nacks
               /\ handler'[t].parsed = NoFields
               /\ ~handler'[t].extracted
               /\ artifact' = artifact
               /\ generation' = generation
               /\ fragment' = fragment
               /\ deferred' = deferred )
      ]_vars

\* the message's delivery-attempt counter, or 1 where the message has none
CounterOrOne(t) == IF handler[t].attempt = 0 THEN 1 ELSE handler[t].attempt

\* the rows of a table deferred_disaggregation under the key of p
RowsOf(tbl, p) == {r \in tbl : DeferredKey(r) = DeferredKey(p)}

\* thread t is handling a message that parsed
Parsed(t) == handler[t].pc = "received" /\ ~Unparseable(bus[handler[t].msg].data)

\* C16: when the source, the generation or the artifact a parsed message
\* names does not exist, or its extractor_type is not configured for the
\* source, the handling ends with the row upserted as FAILED with
\* delivery_attempt set, the message acked once and not nacked, and no
\* extraction (stated for handlings in which no database call exceeds its
\* deadline).
C16_DiscardMissing ==
    [][ \A t \in Threads :
          ( /\ Parsed(t)
            /\ LET p == ParseMessage(bus[handler[t].msg].data).model
               IN  \/ SourceMissing(p)
                   \/ GenerationMissing(p)
                   \/ ArtifactMissing(p)
                   \/ ExtractorMissing(p)
            /\ handler'[t] # handler[t]
            /\ handler'[t].timeout = "none" )
          => ( /\ handler'[t].pc = "idle"
               /\ handler'[t].out = "acked"
               /\ ~handler'[t].extracted
               /\ RowsOf(deferred', ParseMessage(bus[handler[t].msg].data).model) =
                     {[ParseMessage(bus[handler[t].msg].data).model EXCEPT
                          !.status = "FAILED", !.delivery_attempt = CounterOrOne(t)]}
               /\ CounterOrOne(t) >= 1
               /\ bus'[handler[t].msg].acks = bus[handler[t].msg].acks + 1
               /\ bus'[handler[t].msg].nacks = bus[handler[t].msg].nacks
               /\ fragment' = fragment )
      ]_vars

\* a message naming a generation that does not exist has been discarded
\* on a subscription without a delivery counter
C16_Witness ==
    \E t \in Threads :
        /\ handler[t].pc = "idle"
        /\ handler[t].out = "acked"
        /\ handler[t].status = "FAILED"
        /\ handler[t].attempt = 0
        /\ GenerationMissing(handler[t].parsed)
        /\ \E r \in RowsOf(deferred, handler[t].parsed) :
              r.status = "FAILED" /\ r.delivery_attempt = 1

C18_TimeoutNacks ==
    [][ \A t \in Threads :
          ( /\ handler[t].pc # "idle"
            /\ handler'[t].pc = "idle"
            /\ handler'[t].timeout # "none" )
          => ( /\ handler'[t].out = "nacked"
               /\ bus'[handler[t].msg].nacks = bus[handler[t].msg].nacks + 1
               /\ bus'[handler[t].msg].acks = bus[handler[t].msg].acks )
      ]_vars

\* C19: under every key of deferred_disaggregation the status moves only from
\* PENDING to DONE or FAILED and from FAILED to FAILED or DONE; a row that is
\* DONE stays DONE, with duplicate deliveries, redelivery after nack and
\* concurrent handlers.
C19_DoneTerminal ==
    [][ \A r \in deferred :
          /\ RowsOf(deferred', r) # {}
          /\ \A n \in RowsOf(deferred', r) :
                /\ r.status = "DONE" => n.status = "DONE"
                /\ r.status = "FAILED" => n.status \in {"FAILED", "DONE"}
      ]_vars

\* C20: for every row of deferred_disaggregation with status DONE there is a
\* row of fragment with the same source_id and artifact_id and, when the
\* row carries a fragment_id, the same fragment_id.
C20_DoneHasFragment ==
    \A r \in deferred :
        r.status = "DONE" =>
            \E f \in fragment :
                /\ f.source_id = r.source_id
                /\ f.artifact_id = r.artifact_id
                /\ (r.fragment_id # 0 => f.fragment_id = r.fragment_id)

(* ------------------------- change detection --------------------------- *)
\* the artifacts bound to generation L of the source of the running cycle
ArtifactsBoundTo(L) ==
    {a \in artifact : \E g \in generation :
        /\ g.source_id = cur.source_id
        /\ g.generation_id = L
        /\ g.artifact_id = a.artifact_id}

\* the staged rows of the cycle whose pair is not an artifact bound to L
StagedNotBound(L) ==
    {i \in CycleRows : \A a \in ArtifactsBoundTo(L) : TupleOf(a) # TupleOf(stage[i])}

\* the artifacts bound to L whose pair is not staged by the cycle
BoundNotStaged(L) ==
    {a \in ArtifactsBoundTo(L) : \A i \in CycleRows : TupleOf(stage[i]) # TupleOf(a)}

\* C27: when a cycle has staged at least one batch and its source has a
\* latest generation L, count_inserted_updated is the number of staged rows
\* of the cycle whose (external_id, version) is not an artifact bound to L,
\* count_deleted is the number of artifacts bound to L whose pair is not
\* staged by the cycle, and intake goes on to promote iff one of the two
\* numbers is not zero.
C27_ChangeDetection ==
    [][ ( /\ ReadyToDetect
          /\ cur.batch_id >= 1
          /\ GetLatestGeneration(cur.source_id).found
          /\ pc' # pc )
        => LET L == GetLatestGeneration(cur.source_id).generation_id
           IN  /\ CountInsertedUpdated(cur.stage_id, cur.source_id, L) =
                     Cardinality(StagedNotBound(L))
               /\ CountDeleted(cur.stage_id, cur.source_id, L) =
                     Cardinality(BoundNotStaged(L))
               /\ pc' = "promote" <=>
                     (Cardinality(StagedNotBound(L)) # 0 \/ Cardinality(BoundNotStaged(L)) # 0)
               /\ pc' # "promote" => (pc' = "idle" /\ ret'.kind = "none")
      ]_vars

\* a cycle went on to promote with one pair added and one pair gone
C27_Witness ==
    /\ pc = "promote"
    /\ cur.latest.found
    /\ StagedNotBound(cur.latest.generation_id) # {}
    /\ BoundNotStaged(cur.latest.generation_id) # {}

(* ------------------- a model through the work topic ------------------- *)
\* the models disaggregation can publish and the worker can republish:
\* whole-artifact and chunk messages, every status, first and later attempts
RoundTripModels ==
    [source_id : Sources, generation_id : {1, 2}, artifact_id : {1},
     extractor_type : {"HTMLExtractor", "CSVRowExtractor"}, fragment_id : {0, 1},
     start_byte : {-1, 0, 5}, end_byte : {-1, 0, 9}, created_on : {1, 2},
     status : DisaggregationStatus, delivery_attempt : {0, 1}]

RoundTripInit ==
    /\ Empty
    /\ \E model \in RoundTripModels :
          rt = [pc |-> "model", model |-> model, data |-> ModelDumpJson(NoFields),
                parsed |-> [kind |-> "none", model |-> NoFields]]
    /\ chunker = NoChunker
    /\ csv = NoCsv
    /\ sub = NoSub
    /\ run = NoRun
    /\ search = NoSearch
    /\ words = NoWords

\* Disaggregation.do_publish_messages, line 217: the payload of the model
DumpModel ==
    /\ rt.pc = "model"
    /\ rt' = [rt EXCEPT !.pc = "published", !.data = ModelDumpJson(rt.model)]
    /\ UNCHANGED <<ivars, nextId, dvars, tvars, wvars, chunker, csv, sub, run, qvars>>

\* Worker.parse_message on the payload
ParsePayload ==
    /\ rt.pc = "published"
    /\ rt' = [rt EXCEPT !.pc = "parsed", !.parsed = ParseMessage(rt.data)]
    /\ UNCHANGED <<ivars, nextId, dvars, tvars, wvars, chunker, csv, sub, run, qvars>>

RoundTripNext == DumpModel \/ ParsePayload

RoundTripSpec == RoundTripInit /\ [][RoundTripNext]_vars

LineEndings == {"LF", "CRLF", "none"}
Blobs ==
    {f \in UNION {[1..n -> [bytes : {0, 2}, ending : LineEndings]] : n \in 0..MaxLines} :
        \A i \in 1..Len(f) :
            f[i].ending = "none" => i = Len(f) /\ f[i].bytes > 0}

\* the bytes a line takes in the blob
LineSize(line) ==
    line.bytes + (CASE line.ending = "LF" -> 1 [] line.ending = "CRLF" -> 2
                    [] OTHER -> 0)

\* len(line.encode("utf-8")) of a line read from blob.open("rt"): text mode
\* hands out every line ending as "\n"
LineRead(line) == line.bytes + (IF line.ending = "none" THEN 0 ELSE 1)

\* the bytes of the first n lines of a blob; blob.size is that of all lines
LinesSize(file, n) == Sum([i \in 1..n |-> LineSize(file[i])], 1..n)
BlobSize(file) == LinesSize(file, Len(file))

ChunkerInit ==
    /\ Empty
    /\ rt = NoRoundTrip
    /\ \E file \in Blobs, lines_per_chunk \in {1, 2} :
          chunker = [NoChunker EXCEPT !.pc = "lines", !.file = file,
                                      !.lines_per_chunk = lines_per_chunk]
    /\ csv = NoCsv
    /\ sub = NoSub
    /\ run = NoRun
    /\ search = NoSearch
    /\ words = NoWords

\* one turn of the for loop of stream_blob, lines 154-160
ReadLine ==
    /\ chunker.pc = "lines"
    /\ chunker.line_num < Len(chunker.file)
    /\ LET line_num == chunker.line_num + 1
           buf == chunker.buf + LineRead(chunker.file[line_num])
           end == chunker.start + buf
       IN chunker' =
             IF line_num % chunker.lines_per_chunk = 0
             THEN [chunker EXCEPT !.line_num = line_num,
                                  !.chunks = Append(@, <<chunker.start, end - 1>>),
                                  !.start = end, !.buf = 0]
             ELSE [chunker EXCEPT !.line_num = line_num, !.buf = buf]
    /\ UNCHANGED <<ivars, nextId, dvars, tvars, wvars, rt, csv, sub, run, qvars>>

\* the end of the blob, lines 161-162
EndOfBlob ==
    /\ chunker.pc = "lines"
    /\ chunker.line_num = Len(chunker.file)
    /\ chunker' =
          [chunker EXCEPT !.pc = "done",
                          !.chunks = IF chunker.start < BlobSize(chunker.file)
                                     THEN Append(@, <<chunker.start, BlobSize(chunker.file)>>)
                                     ELSE @]
    /\ UNCHANGED <<ivars, nextId, dvars, tvars, wvars, rt, csv, sub, run, qvars>>

ChunkerNext == ReadLine \/ EndOfBlob

ChunkerSpec == ChunkerInit /\ [][ChunkerNext]_vars

\* C24: for a blob of exactly k * lines_per_chunk lines, k >= 1,
\* calc_line_chunks yields exactly k chunks, the first from byte 0, each next
\* one from the previous end_byte + 1, each holding exactly lines_per_chunk
\* lines, together covering [0, content_length), with no trailing chunk
C24_ChunkerBoundary ==
    ( /\ chunker.pc = "done"
      /\ Len(chunker.file) >= 1
      /\ Len(chunker.file) % chunker.lines_per_chunk = 0 )
    => LET k == Len(chunker.file) \div chunker.lines_per_chunk
           \* chunk i holds the lines (i-1)*lines_per_chunk+1 .. i*lines_per_chunk
           HoldsItsLines(i) ==
               /\ chunker.chunks[i][1] =
                     LinesSize(chunker.file, (i - 1) * chunker.lines_per_chunk)
               /\ chunker.chunks[i][2] =
                     LinesSize(chunker.file, i * chunker.lines_per_chunk) - 1
       IN /\ Len(chunker.chunks) = k
          /\ chunker.chunks[1][1] = 0
          /\ \A i \in 1..(k - 1) : chunker.chunks[i + 1][1] = chunker.chunks[i][2] + 1
          /\ \A i \in 1..k : HoldsItsLines(i)
          /\ chunker.chunks[k][2] = BlobSize(chunker.file) - 1

(* -------------------------- CSVRowExtractor --------------------------- *)
\* a CSV artifact as its lines, the header first, every line with one value
\* per column
CsvHeader == <<"foo", "bar">>
CsvFiles ==
    {<<CsvHeader>> \o rows :
        rows \in UNION {[1..n -> [1..Len(CsvHeader) -> {"0", "quux"}]] : n \in 0..MaxRows}}

\* the whole artifact (no byte range: first = 0), or the bytes of the lines
\* first..last as a chunk of calc_line_chunks holds them
CsvInit ==
    /\ Empty
    /\ rt = NoRoundTrip
    /\ chunker = NoChunker
    /\ \E file \in CsvFiles, first \in 0..(MaxRows + 1), last \in 0..(MaxRows + 1) :
          /\ \/ first = 0 /\ last = 0
             \/ 1 <= first /\ first <= last /\ last <= Len(file)
          /\ csv = [NoCsv EXCEPT !.pc = "fieldnames", !.file = file, !.first = first,
                                 !.last = last]
    /\ sub = NoSub
    /\ run = NoRun
    /\ search = NoSearch
    /\ words = NoWords

\* calc_fieldnames, lines 338-341: the first row of the first 4096 bytes
CalcFieldnames ==
    /\ csv.pc = "fieldnames"
    /\ csv' = [csv EXCEPT !.pc = "parse", !.fieldnames = csv.file[1]]
    /\ UNCHANGED <<ivars, nextId, dvars, tvars, wvars, rt, chunker, sub, run, qvars>>

\* parse_content, lines 327-336: the byte range, or the whole artifact
ParseContent ==
    /\ csv.pc = "parse"
    /\ csv' = [csv EXCEPT !.pc = "rows",
                          !.content = IF csv.first = 0 THEN csv.file
                                      ELSE SubSeq(csv.file, csv.first, csv.last)]
    /\ UNCHANGED <<ivars, nextId, dvars, tvars, wvars, rt, chunker, sub, run, qvars>>

\* " ".join(row.values())
JoinValues(row) ==
    LET join[i \in 1..Len(row)] ==
            IF i = 1 THEN row[1] ELSE join[i - 1] \o " " \o row[i]
    IN IF Len(row) = 0 THEN "" ELSE join[Len(row)]

\* a row of DictReader(f, fieldnames=fieldnames)
DictRow(fieldnames, row) ==
    [name \in Range(fieldnames) |->
        row[CHOOSE i \in 1..Len(fieldnames) : fieldnames[i] = name]]

\* one turn of "for row in reader", lines 350-352: DictReader with explicit
\* fieldnames hands out every line of the content as a row
NextRow ==
    /\ csv.pc = "rows"
    /\ Len(csv.fragments) < Len(csv.content)
    /\ LET row == csv.content[Len(csv.fragments) + 1]
       IN csv' = [csv EXCEPT !.fragments =
                     Append(@, [seq_no |-> 0, aggregation_level |-> "ROW",
                                text_content |-> JoinValues(row),
                                json_content |-> DictRow(csv.fieldnames, row)])]
    /\ UNCHANGED <<ivars, nextId, dvars, tvars, wvars, rt, chunker, sub, run, qvars>>

\* line 354: return fragments
ReturnFragments ==
    /\ csv.pc = "rows"
    /\ Len(csv.fragments) = Len(csv.content)
    /\ csv' = [csv EXCEPT !.pc = "done"]
    /\ UNCHANGED <<ivars, nextId, dvars, tvars, wvars, rt, chunker, sub, run, qvars>>

CsvNext == CalcFieldnames \/ ParseContent \/ NextRow \/ ReturnFragments

CsvSpec == CsvInit /\ [][CsvNext]_vars

\* C25: with or without a byte range, calc_fragments returns exactly one ROW
\* fragment per data row of the parsed content and none for the header row,
\* with text_content the space-joined values and json_content the map from
\* the header's field names to the values
C25_CsvRows ==
    csv.pc = "done"
    => LET from == IF csv.first <= 1 THEN 2 ELSE csv.first
           to == IF csv.first = 0 THEN Len(csv.file) ELSE csv.last
           dataRows == SubSeq(csv.file, from, to)
       IN /\ Len(csv.fragments) = Len(dataRows)
          /\ \A i \in 1..Len(dataRows) :
                /\ csv.fragments[i].aggregation_level = "ROW"
                /\ csv.fragments[i].text_content = dataRows[i][1] \o " " \o dataRows[i][2]
                /\ \A c \in 1..Len(CsvHeader) :
                      csv.fragments[i].json_content[CsvHeader[c]] = dataRows[i][c]

(* ---------------------------- SubSupport ------------------------------ *)
SubInit ==
    /\ Empty
    /\ rt = NoRoundTrip
    /\ chunker = NoChunker
    /\ csv = NoCsv
    /\ sub = NoSub
    /\ run = NoRun
    /\ search = NoSearch
    /\ words = NoWords

\* variant: start does not look at self.f
Started_Never(f) == FALSE

\* self.f is not None
Started(f) == f # 0

\* SubSupport.start, lines 159-169: raises when started, else subscribes and
\* waits in self.f.result()
Start ==
    /\ sub.calls < MaxCalls
    /\ ~sub.stopping
    /\ sub' = IF Started(sub.f)
              THEN [sub EXCEPT !.calls = @ + 1, !.op = "start", !.out = "Already started"]
              ELSE [sub EXCEPT !.calls = @ + 1, !.op = "start", !.out = "subscribed",
                               !.f = sub.calls + 1, !.active = @ \cup {sub.calls + 1}]
    /\ UNCHANGED <<ivars, nextId, dvars, tvars, wvars, rt, chunker, csv, run, qvars>>

\* SubSupport.stop, lines 171-179: raises when not started, else cancels the
\* streaming pull and waits in self.f.result(timeout_seconds)
Stop ==
    /\ sub.calls < MaxCalls
    /\ ~sub.stopping
    /\ sub' = IF ~Started(sub.f)
              THEN [sub EXCEPT !.calls = @ + 1, !.op = "stop", !.out = "Not started"]
              ELSE [sub EXCEPT !.calls = @ + 1, !.op = "stop", !.out = "cancelled",
                               !.stopping = TRUE]
    /\ UNCHANGED <<ivars, nextId, dvars, tvars, wvars, rt, chunker, csv, run, qvars>>

\* lines 180-182: the streaming pull has shut down within the timeout
Stopped ==
    /\ sub.stopping
    /\ sub.f \in sub.active
    /\ sub' = [sub EXCEPT !.stopping = FALSE, !.out = "stopped", !.f = 0,
                          !.active = @ \ {sub.f}]
    /\ UNCHANGED <<ivars, nextId, dvars, tvars, wvars, rt, chunker, csv, run, qvars>>

\* line 180: self.f.result(timeout_seconds) raises, on the timeout or with the
\* error the streaming pull ended with before; self.f stays
StopRaises ==
    /\ sub.stopping
    /\ sub' = [sub EXCEPT !.stopping = FALSE,
                          !.out = IF sub.f \in sub.active THEN "TimeoutError" ELSE "error"]
    /\ UNCHANGED <<ivars, nextId, dvars, tvars, wvars, rt, chunker, csv, run, qvars>>

\* the streaming pull ends by itself: a non-recoverable error, or the end
\* of a shutdown that outlasted the timeout of stop
PullEnds ==
    /\ sub.active # {}
    /\ ~sub.stopping
    /\ sub' = [sub EXCEPT !.active = {}]
    /\ UNCHANGED <<ivars, nextId, dvars, tvars, wvars, rt, chunker, csv, run, qvars>>

SubNext == Start \/ Stop \/ Stopped \/ StopRaises \/ PullEnds

SubSpec == SubInit /\ [][SubNext]_vars

\* C26: start on a started subscriber raises "Already started" and does not
\* subscribe again; stop on a subscriber that is not started raises "Not
\* started"; a successful stop ends the subscription and leaves the
\* subscriber not started; at most one subscription is ever active
C26_StartStop ==
    /\ [](Cardinality(sub.active) <= 1)
    /\ [][ /\ (sub'.calls # sub.calls /\ sub'.op = "start" /\ sub.f # 0)
               => (sub'.out = "Already started" /\ sub'.f = sub.f
                   /\ sub'.active = sub.active)
           /\ (sub'.calls # sub.calls /\ sub'.op = "stop" /\ sub.f = 0)
               => (sub'.out = "Not started" /\ sub'.f = 0 /\ sub'.active = sub.active)
           /\ (sub'.out = "stopped" /\ sub.out # "stopped")
               => (sub.stopping /\ sub'.f = 0 /\ sub.f \notin sub'.active) ]_vars

\* started, stopped, started again, and a further start has raised
C26_Witness ==
    /\ sub.out = "Already started"
    /\ sub.f > 1
    /\ sub.active = {sub.f}

(* ------------- Disaggregation.disaggregate, statement by statement ---- *)
\* what calc_line_chunks yields for the blob of an artifact
LineChunks(a) ==
    IF a.version = "v1" THEN <<<<0, 9>>, <<10, 19>>>> ELSE <<<<0, 9>>>>

\* generation 2 of source s2: artifact 1 carried over from generation 1 and
\* up to MaxNew artifacts new in generation 2
DisInit ==
    /\ \E n \in 0..MaxNew :
          /\ artifact =
                {[artifact_id |-> i, source_id |-> "s2", external_id |-> <<"e", i>>,
                  version |-> IF i % 2 = 0 THEN "v1" ELSE "v2",
                  created_on |-> IF i = 1 THEN 1 ELSE 2] : i \in 1..(n + 1)}
          /\ generation =
                {[source_id |-> "s2", generation_id |-> 2, artifact_id |-> i,
                  created_on |-> 2] : i \in 1..(n + 1)}
                \cup {[source_id |-> "s2", generation_id |-> 1, artifact_id |-> 1,
                       created_on |-> 1]}
    /\ nextId = MaxNew + 2
    /\ stage = <<>>
    /\ pc = "idle"
    /\ cur = NoCycle
    /\ ret = [kind |-> "generation", generation_id |-> 2]
    /\ nextStage = 3
    /\ lastNow = [s \in Sources |-> IF s = "s2" THEN 2 ELSE 0]
    /\ born = {}
    /\ dis = NoDisaggregation
    /\ disCalls = <<>>
    /\ fragment = {}
    /\ deferred = {}
    /\ published = {}
    /\ bus = <<>>
    /\ handler = [t \in Threads |-> IdleHandler]
    /\ rt = NoRoundTrip
    /\ chunker = NoChunker
    /\ csv = NoCsv
    /\ sub = NoSub
    /\ search = NoSearch
    /\ words = NoWords
    /\ \E mode \in {"IMMEDIATE", "IMMEDIATE_CHUNKED", "DEFERRED", "DEFERRED_CHUNKED"},
          limit \in {1, 2} :
          run = [NoRun EXCEPT !.pc = "fetch", !.mode = mode, !.limit = limit]

\* the rows of a query without ORDER BY, in any order
Orders(S) == {f \in [1..Cardinality(S) -> S] : Range(f) = S}

\* lines 41-44: get_new_artifacts(limit, offset); the query of each page
\* runs on its own and names no order
FetchPage ==
    /\ run.pc = "fetch"
    /\ \E rows \in Orders(GetNewArtifacts("s2", 2)) :
          LET page == SelectPage(rows, run.limit, run.offset)
          IN run' = [run EXCEPT !.pc = "dispatch", !.page = page,
                                !.offsets = Append(@, run.offset),
                                !.offset = NextPageOffset(page, run.limit, run.offset)]
    /\ UNCHANGED <<ivars, nextId, dvars, tvars, wvars, rt, chunker, csv, sub, qvars>>

\* variant: only the first configured extractor is used
Tasks_FirstExtractor(page, exts, chunked) ==
    [k \in 1..Len(page) |-> [artifact |-> page[k], extractor_type |-> exts[1],
                             start_byte |-> -1, end_byte |-> -1]]

\* the nested loops of the four handlers: for artifact, (for chunk,) for
\* extractor; None is -1 for start_byte and end_byte
Tasks(page, exts, chunked) ==
    LET ranges(a) == IF chunked THEN LineChunks(a) ELSE <<<<-1, -1>>>>
        of(a) == [k \in 1..(Len(ranges(a)) * Len(exts)) |->
                    [artifact |-> a,
                     extractor_type |-> exts[((k - 1) % Len(exts)) + 1],
                     start_byte |-> ranges(a)[((k - 1) \div Len(exts)) + 1][1],
                     end_byte |-> ranges(a)[((k - 1) \div Len(exts)) + 1][2]]]
        upto[i \in 0..Len(page)] == IF i = 0 THEN <<>> ELSE upto[i - 1] \o of(page[i])
    IN upto[Len(page)]

\* lines 45-76: the handler the mode selects. disaggregate_all and
\* disaggregate_and_chunk_all run disaggregate_one on every task;
\* defer_all and defer_and_chunk_all build one message per task, the
\* chunked one with fragment_id = uuid4().hex
Dispatch ==
    /\ run.pc = "dispatch"
    /\ LET chunked == run.mode \in {"IMMEDIATE_CHUNKED", "DEFERRED_CHUNKED"}
           tasks == Tasks(run.page, SourceExtractors("s2"), chunked)
           seen == [run EXCEPT !.handlers = Append(@, run.mode),
                               !.dispatched = @ \o [k \in 1..Len(run.page) |->
                                                       run.page[k].artifact_id]]
       IN IF run.mode \in {"DEFERRED", "DEFERRED_CHUNKED"}
          THEN /\ run' = [seen EXCEPT !.pc = "persist", !.persisted = 0,
                            !.msgs = [k \in 1..Len(tasks) |->
                               [DeferredRow("s2", 2, 2, tasks[k].artifact,
                                            tasks[k].extractor_type)
                                  EXCEPT !.start_byte = tasks[k].start_byte,
                                         !.end_byte = tasks[k].end_byte,
                                         !.fragment_id = IF chunked THEN nextId + k - 1
                                                         ELSE 0]]]
               /\ nextId' = IF chunked THEN nextId + Len(tasks) ELSE nextId
               /\ UNCHANGED fragment
          ELSE LET new == FragmentsOf([k \in 1..Len(tasks) |->
                                         <<tasks[k].artifact, tasks[k].extractor_type>>],
                                      nextId)
               IN /\ fragment' = fragment \cup new
                  /\ nextId' = nextId + Cardinality(new)
                  /\ run' = [seen EXCEPT !.count = @ + Len(tasks),
                                         !.pc = IF run.offset = -1 THEN "return"
                                                ELSE "fetch"]
    /\ UNCHANGED <<ivars, dvars, deferred, published, wvars, rt, chunker, csv, sub, qvars>>

\* do_publish_messages, lines 215-216: insert_deferred_disaggregations on
\* the next batch of the messages
PersistBatch ==
    /\ run.pc = "persist"
    /\ run.persisted < Len(run.msgs)
    /\ LET batch == FirstBatch(SubSeq(run.msgs, run.persisted + 1, Len(run.msgs)),
                               DeferredBatchSize)
       IN /\ deferred' = InsertDeferred(deferred, Range(batch))
          /\ run' = [run EXCEPT !.persisted = @ + Len(batch)]
    /\ UNCHANGED <<ivars, nextId, dvars, fragment, published, wvars, rt, chunker, csv, sub, qvars>>

\* insert_deferred_disaggregations raises: the exception leaves
\* do_publish_messages, the handler and disaggregate
PersistRaises ==
    /\ run.pc = "persist"
    /\ run.persisted < Len(run.msgs)
    /\ run' = [run EXCEPT !.pc = "raised"]
    /\ UNCHANGED <<ivars, nextId, dvars, tvars, wvars, rt, chunker, csv, sub, qvars>>

\* variant: publication does not wait for the batches
AllPersisted_Any(r) == TRUE

\* the for loop of line 215 is over
AllPersisted(r) == r.persisted = Len(r.msgs)

\* the messages of the futures that succeeded, in the order of publication
RECURSIVE Accepted(_, _)
Accepted(msgs, ok) ==
    IF msgs = <<>> THEN <<>>
    ELSE Accepted(SubSeq(msgs, 1, Len(msgs) - 1), ok)
            \o (IF Len(msgs) \in ok
                THEN <<[data |-> ModelDumpJson(msgs[Len(msgs)]), counted |-> FALSE,
                        deliveries |-> 0, acks |-> 0, nacks |-> 0]>>
                ELSE <<>>)

\* line 217-218 and the return len(msgs) of the handler: one publish future
\* per message, wait() on all of them (a future that ended with an exception
\* counts as completed), the number of messages added to count; the topic
\* hands every message it accepted to the work subscription
Publish ==
    /\ run.pc = "persist"
    /\ AllPersisted(run)
    /\ \E ok \in SUBSET (1..Len(run.msgs)) :
          /\ published' = published \cup {ModelDumpJson(run.msgs[k]) : k \in ok}
          /\ bus' = bus \o Accepted(run.msgs, ok)
          /\ run' = [run EXCEPT !.sent = @ + Cardinality(ok),
                                !.count = @ + Len(run.msgs),
                                !.pc = IF run.offset = -1 THEN "return" ELSE "fetch"]
    /\ UNCHANGED <<ivars, nextId, dvars, fragment, deferred, handler, rt, chunker, csv, sub, qvars>>

\* line 77: return count
ReturnCount ==
    /\ run.pc = "return"
    /\ run' = [run EXCEPT !.pc = "done"]
    /\ UNCHANGED <<ivars, nextId, dvars, tvars, wvars, rt, chunker, csv, sub, qvars>>

DisNext ==
    FetchPage \/ Dispatch \/ PersistBatch \/ PersistRaises \/ Publish \/ ReturnCount

DisSpec == DisInit /\ [][DisNext]_vars

\* C22: for a page of artifacts, defer_all persists and publishes exactly one
\* DeferredDisaggregation per artifact and configured extractor, without byte
\* range or fragment_id; defer_and_chunk_all exactly one per artifact, line
\* chunk and configured extractor, each with the chunk's byte range and a
\* fragment_id; both return the number of messages
C22_FanOut ==
    [][ ( /\ run.pc = "persist"
          /\ run'.pc \in {"fetch", "return"}
          /\ run'.sent = run.sent + Len(run.msgs) )
        => LET chunked == run.mode = "DEFERRED_CHUNKED"
               ranges(a) == IF chunked THEN Range(LineChunks(a)) ELSE {<<-1, -1>>}
               expected ==
                   UNION {{[artifact_id |-> a.artifact_id, extractor_type |-> x,
                            start_byte |-> c[1], end_byte |-> c[2]] :
                              x \in Range(SourceExtractors("s2")), c \in ranges(a)} :
                          a \in Range(run.page)}
               combination(m) ==
                   [artifact_id |-> m.artifact_id, extractor_type |-> m.extractor_type,
                    start_byte |-> m.start_byte, end_byte |-> m.end_byte]
               msgs == run.msgs
           IN /\ Len(msgs) = Cardinality(expected)
              /\ {combination(msgs[k]) : k \in 1..Len(msgs)} = expected
              /\ \A k \in 1..Len(msgs) :
                    /\ msgs[k] \in deferred'
                    /\ msgs[k].status = "PENDING"
                    /\ ModelDumpJson(msgs[k]) \in published'
                    /\ msgs[k].source_id = "s2" /\ msgs[k].generation_id = 2
                    /\ chunked <=> msgs[k].fragment_id # 0
              /\ \A j, k \in 1..Len(msgs) :
                    (chunked /\ j # k) => msgs[j].fragment_id # msgs[k].fragment_id
              /\ published' \ published \subseteq {ModelDumpJson(msgs[k]) : k \in 1..Len(msgs)}
              /\ run'.count = run.count + Len(msgs) ]_vars

\* two artifacts, of two chunks and of one, and two extractors: six rows
C22_Witness ==
    /\ run.pc = "done"
    /\ run.mode = "DEFERRED_CHUNKED"
    /\ run.dispatched = <<2, 3>>
    /\ run.count = 6
    /\ run.sent = 6
    /\ Cardinality(deferred) = 6
    /\ Cardinality(published) = 6

\* C28: do_publish_messages persists every DeferredDisaggregation of the
\* call before it publishes any of them, and publishes none when persisting
\* a batch fails: no payload is on the topic without its row in
\* deferred_disaggregation
C28_PersistBeforePublish ==
    /\ [](\A d \in published : ParseMessage(d).model \in deferred)
    /\ [][ /\ published' # published
              => \A k \in 1..Len(run.msgs) : run.msgs[k] \in deferred
           /\ (run.pc = "raised" \/ run'.pc = "raised") => published' = published ]_vars

\* the first batch of a call was persisted, the second insert raised, and
\* nothing is on the topic
C28_Witness ==
    /\ run.pc = "raised"
    /\ run.persisted = DeferredBatchSize
    /\ Cardinality(deferred) = DeferredBatchSize
    /\ published = {}

\* C29: the count do_publish_messages and the deferring handlers return as
\* "messages sent" is the number of messages whose publish succeeded
C29_CountIsPublished ==
    run.mode \in {"DEFERRED", "DEFERRED_CHUNKED"} => run.count = run.sent

\* C30: disaggregate terminates after fetching the pages at offsets 0,
\* limit, 2*limit, ... up to the first page that is not full, has handed
\* every page to the handler of the source's mode, has dispatched every new
\* artifact of the generation exactly once, and returns the sum of the
\* counts of the pages
C30_Pagination ==
    run.pc = "done"
    => LET new == {a.artifact_id : a \in GetNewArtifacts("s2", 2)}
           pages == (Cardinality(new) \div run.limit) + 1
       IN /\ run.offsets = [k \in 1..pages |-> (k - 1) * run.limit]
          /\ run.handlers = [k \in 1..pages |-> run.mode]
          /\ Len(run.dispatched) = Cardinality(new)
          /\ Range(run.dispatched) = new

(* ------------- deferred work, from publication to DONE ---------------- *)
\* a deferring disaggregation of a generation with two new artifacts
FlowInit ==
    /\ DisInit
    /\ Cardinality(GetNewArtifacts("s2", 2)) = 2
    /\ run.mode \in {"DEFERRED", "DEFERRED_CHUNKED"}

\* every publish future of the call succeeds
PublishAll == Publish /\ run'.sent = run.sent + Len(run.msgs)

\* the subscriber hands message k, not acknowledged, to a free callback
\* thread (a worker started with the default max_messages has one, t1)
DeliverPublished(t, k) ==
    /\ k \in DOMAIN bus
    /\ handler[t].pc = "idle"
    /\ bus[k].acks = 0
    /\ handler' = [handler EXCEPT ![t] =
                      [IdleHandler EXCEPT !.pc = "received", !.msg = k,
                                          !.attempt = MessageAttempt(bus[k])]]
    /\ bus' = [bus EXCEPT ![k].deliveries = @ + 1]
    /\ UNCHANGED <<ivars, pvars, nextId, dvars, tvars>>

Disaggregating == FetchPage \/ Dispatch \/ PersistBatch \/ PublishAll \/ ReturnCount
Delivering == \E k \in DOMAIN bus : DeliverPublished("t1", k)
Working == Receive("t1") \/ Extract("t1") \/ MarkDone("t1")

FlowNext == Disaggregating \/ Delivering \/ Working

\* disaggregate runs on, unacknowledged messages are delivered, and a
\* callback that was called runs to its end
FlowSpec ==
    /\ FlowInit
    /\ [][FlowNext]_vars
    /\ WF_vars(Disaggregating)
    /\ WF_vars(Delivering)
    /\ WF_vars(Working)

\* C23: every row a deferring disaggregation persisted as PENDING and
\* published eventually has status DONE, and the generation then has as
\* many DONE rows as messages were published
C23_EventuallyDone ==
    <>( /\ run.pc = "done"
        /\ \A r \in deferred : r.status = "DONE"
        /\ Cardinality({r \in deferred : r.generation_id = 2 /\ r.status = "DONE"})
              = run.sent )

\* C40: every invocation of the Worker handler on a message ends with exactly
\* one of ack and nack called on the message, whichever step raises
C40_OneAcknowledgement ==
    [][ \A t \in Threads :
          (handler[t].pc # "idle" /\ handler'[t].pc = "idle")
          => LET m == handler[t].msg
                 acks == bus'[m].acks - bus[m].acks
                 nacks == bus'[m].nacks - bus[m].nacks
             IN acks + nacks = 1
      ]_vars


\* C39: handling one DeferredDisaggregation message more than once leaves the
\* fragment table with the rows one successful handling leaves: while only
\* one message has ever been delivered, the artifact has at most the
\* fragments its content yields under the message's extractor
C39_RedeliveryIdempotent ==
    \A m \in Messages :
       (/\ bus[m].data \in PublishedPayloads
        /\ \A o \in Messages \ {m} : bus[o].deliveries = 0)
       => LET p == ParseMessage(bus[m].data).model
              a == CHOOSE x \in artifact : x.artifact_id = p.artifact_id
          IN Cardinality({f \in fragment :
                             /\ f.artifact_id = p.artifact_id
                             /\ f.aggregation_level = AggregationLevel(p.extractor_type)})
                <= FragmentCount(a, p.extractor_type)


\* C31: in DEFERRED_CHUNKED mode every fragment the worker extracts for a
\* task carries the fragment_id of the task, the one recorded on the task's
\* DeferredDisaggregation row, and (artifact_id, fragment_id, seq_no)
\* identifies a fragment
C31_ChunkFragmentIdentity ==
    run.mode = "DEFERRED_CHUNKED"
    => /\ \A f \in fragment :
             \E r \in deferred : /\ r.generation_id = 2
                                 /\ r.artifact_id = f.artifact_id
                                 /\ r.fragment_id = f.fragment_id
       /\ \A f, g \in fragment :
             (/\ f.artifact_id = g.artifact_id
              /\ f.fragment_id = g.fragment_id
              /\ f.seq_no = g.seq_no) => f = g


\* C32: for every file and lines_per_chunk, calc_line_chunks yields
\* ceil(lines / lines_per_chunk) chunks, the first from byte 0, each next one
\* from the previous end_byte + 1, every chunk but the last holding exactly
\* lines_per_chunk lines, the last one ending at content_length - 1 whether
\* or not the line count is a multiple; an empty file yields no chunk
C32_ChunkerCoverage ==
    chunker.pc = "done"
    => LET lpc == chunker.lines_per_chunk
           n == (Len(chunker.file) + lpc - 1) \div lpc
           chunks == chunker.chunks
       IN /\ Len(chunks) = n
          /\ n >= 1 => /\ chunks[1][1] = 0
                       /\ chunks[n][2] = BlobSize(chunker.file) - 1
          /\ \A i \in 1..(n - 1) :
                /\ chunks[i + 1][1] = chunks[i][2] + 1
                /\ chunks[i][1] = LinesSize(chunker.file, (i - 1) * lpc)
                /\ chunks[i][2] = LinesSize(chunker.file, i * lpc) - 1


(* ----------------------- Intake.BATCH_SIZE ----------------------------- *)
\* cif/intake.py, lines 19-25: the transaction's mutation limit (80k), the
\* mutations of one promoted row (11 columns + 3 indexes), and the constant
MutationLimit == 80000
MutationsPerRow == 14
BATCH_SIZE == 6153

\* C33: mutations per row times BATCH_SIZE stays within the mutation limit
\* of one transaction, and no staged batch holds more rows than the batch
\* size
C33_MutationBudget ==
    /\ MutationsPerRow * BATCH_SIZE <= MutationLimit
    /\ \A i \in 1..Len(stage) :
          Cardinality({j \in 1..Len(stage) :
                          /\ stage[j].stage_id = stage[i].stage_id
                          /\ stage[j].batch_id = stage[i].batch_id}) <= BatchSize


(* ------------------ Catalog.search_fragments_key ----------------------- *)
\* the number of terms of a query
MaxTerms == 2
\* the length the pattern of line 535 asks for
SourceIdLen == 32

\* a string by its longest prefix of hexadecimal characters (their number)
\* and what follows it: nothing, or text starting with another character
SourceIds ==
    [hex : {0, SourceIdLen - 1, SourceIdLen, SourceIdLen + 1}, tail : {"", "' or true --"}]

\* the rows of fragment_key: of one fragment of the source whose source_id
\* is the first SourceIdLen characters of the argument ("same"), and of one
\* fragment of another source; queries of at least one KeySearchTerm, each
\* with at least one value
SearchInit ==
    /\ Empty
    /\ rt = NoRoundTrip /\ chunker = NoChunker /\ csv = NoCsv /\ sub = NoSub
    /\ run = NoRun /\ words = NoWords
    /\ LET KeySearchTerms == [key : {"k1", "k2"}, values : SUBSET {"a", "b"} \ {{}}]
           rows(src, n) == {t \in SUBSET [source_id : {src}, key : {"k1", "k2"},
                                          value : {"a", "b"}] : Cardinality(t) <= n}
       IN \E source_id \in SourceIds :
          \E query \in UNION {[1..n -> KeySearchTerms] : n \in 1..MaxTerms} :
          \E same \in rows("same", 2), other \in rows("other", 1) :
             search = [NoSearch EXCEPT !.pc = "call", !.source_id = source_id,
                                       !.query = query,
                                       !.fragment_key = same \cup other]

\* re.match(r"[0-9a-fA-F]{32}", source_id): the pattern is matched at the
\* start of the string and need not reach its end
MatchSourceId(source_id) == source_id.hex >= SourceIdLen

\* lines 535-538: the test of source_id
ValidateSourceId ==
    /\ search.pc = "call"
    /\ search' = IF MatchSourceId(search.source_id)
                 THEN [search EXCEPT !.pc = "query"]
                 ELSE [search EXCEPT !.pc = "done", !.out.kind = "ValueError"]
    /\ UNCHANGED <<ivars, nextId, dvars, tvars, wvars, rt, chunker, csv, sub, run, words>>

\* calc_search_fragments_key_where_clause followed by "and source_id =
\* @source_id": (term or term ... or term) is not parenthesised, so the
\* test of source_id binds to the last term only
WhereClause(query, row) ==
    LET term(ix) == row.key = query[ix].key /\ row.value \in query[ix].values
    IN \/ \E ix \in 1..(Len(query) - 1) : term(ix)
       \/ term(Len(query)) /\ row.source_id = "same"

\* the statement of lines 541-554 for a source_id that is the id of the
\* source: group by fragment, having count(distinct key) = len(query),
\* joined to the fragments of the source
Matches(query, fragment_key) ==
    {src \in {"same"} :
        Cardinality({row.key : row \in {x \in fragment_key :
                                           /\ x.source_id = src
                                           /\ WhereClause(query, x)}}) = Len(query)}

\* lines 555-562: source_id is written into the statement and select_many
\* runs it. A longer hexadecimal string names no source; with other text
\* after the prefix the statement is whatever that text makes of it
SelectMany ==
    /\ search.pc = "query"
    /\ \E rows \in SUBSET {"same", "other"} :
          /\ search.source_id.tail = ""
             => rows = IF search.source_id.hex = SourceIdLen
                       THEN Matches(search.query, search.fragment_key) ELSE {}
          /\ search' = [search EXCEPT !.pc = "done", !.out = [kind |-> "rows", rows |-> rows]]
    /\ UNCHANGED <<ivars, nextId, dvars, tvars, wvars, rt, chunker, csv, sub, run, words>>

SearchNext == ValidateSourceId \/ SelectMany

SearchSpec == SearchInit /\ [][SearchNext]_vars

\* C34: search_fragments_key raises ValueError and runs no query for every
\* source_id that is not exactly 32 hexadecimal characters, also for one
\* that begins with 32 hexadecimal characters
C34_StrictSourceId ==
    ( /\ search.pc \in {"query", "done"}
      /\ ~ (search.source_id.hex = SourceIdLen /\ search.source_id.tail = "") )
    => search.pc = "done" /\ search.out.kind = "ValueError"

\* C35: search_fragments_key returns a fragment iff for every distinct key
\* of the query the fragment has a fragment_key row with that key and one
\* of the values the query gives for it, also when two terms name one key
C35_AllKeysMatch ==
    ( /\ search.pc = "done"
      /\ search.source_id.hex = SourceIdLen /\ search.source_id.tail = "" )
    => LET query == search.query
           keys == {query[ix].key : ix \in 1..Len(query)}
           values(key) == UNION {query[ix].values :
                                   ix \in {i \in 1..Len(query) : query[i].key = key}}
           has(key) == \E row \in search.fragment_key :
                          /\ row.source_id = "same"
                          /\ row.key = key
                          /\ row.value \in values(key)
       IN /\ search.out.kind = "rows"
          /\ "same" \in search.out.rows <=> \A key \in keys : has(key)
          /\ "other" \notin search.out.rows


(* ------------------- Extractor.filter_text_content --------------------- *)
\* number of filter_text_content calls
MaxFilterCalls == 2

\* base_stop_words.txt; the words of a text ("Gonzo" with a capital, "x" of
\* one character); the extractor classes
BaseStopWords == <<"the">>
Lower(word) == IF word = "Gonzo" THEN "gonzo" ELSE word
ExtractorClasses == {"HTMLExtractor", "CSVRowExtractor"}

\* calc_base_stop_words is cached per class: the first call reads the file,
\* every later call returns the list object the first one returned
CalcBaseStopWords(cache, cls) == IF cache[cls] = <<>> THEN BaseStopWords ELSE cache[cls]

FilterInit ==
    /\ Empty
    /\ rt = NoRoundTrip /\ chunker = NoChunker /\ csv = NoCsv /\ sub = NoSub
    /\ run = NoRun /\ search = NoSearch
    /\ words = [NoWords EXCEPT !.cache = [cls \in ExtractorClasses |-> <<>>]]

\* lines 257-261 for an extractor of class cls with text_content_filter
\* config: stop_words is the cached list itself when base stop words are
\* included, and += extends that list in place
FilterTextContent ==
    /\ words.calls < MaxFilterCalls
    /\ \E cls \in ExtractorClasses :
       \E config \in [include_base_stop_words : BOOLEAN,
                      additional_stop_words : {<<>>, <<"gonzo">>, <<"data">>}] :
       \E text \in UNION {[1..n -> {"the", "Gonzo", "data", "x"}] : n \in 0..2} :
          LET stop_words == (IF config.include_base_stop_words
                             THEN CalcBaseStopWords(words.cache, cls) ELSE <<>>)
                            \o config.additional_stop_words
              keep(word) == Lower(word) \notin Range(stop_words) /\ word # "x"
              kept == SelectSeq(text, keep)
          IN words' = [cache |-> IF config.include_base_stop_words
                                 THEN [words.cache EXCEPT ![cls] = stop_words]
                                 ELSE words.cache,
                       calls |-> words.calls + 1,
                       config |-> config, text |-> text,
                       out |-> [k \in 1..Len(kept) |-> Lower(kept[k])]]
    /\ UNCHANGED <<ivars, nextId, dvars, tvars, wvars, rt, chunker, csv, sub, run, search>>

FilterSpec == FilterInit /\ [][FilterTextContent]_vars

\* C36: filter_text_content leaves the cached base stop words as they are,
\* and the result of a call is its text in lower case without the words of
\* one character, the base stop words if the extractor includes them, and
\* the extractor's own additional stop words
C36_NoSharedStopWords ==
    [][ words'.calls = words.calls + 1
        => LET config == words'.config
               text == words'.text
               own == Range(config.additional_stop_words)
                      \cup (IF config.include_base_stop_words
                            THEN Range(BaseStopWords) ELSE {})
               keep(word) == Lower(word) \notin own /\ word # "x"
               kept == SelectSeq(text, keep)
           IN /\ \A cls \in ExtractorClasses :
                    words'.cache[cls] \in {<<>>, BaseStopWords}
              /\ words'.out = [k \in 1..Len(kept) |-> Lower(kept[k])]
      ]_vars


(* ------------- Intake.intake with use_created_on supplied -------------- *)
\* Intake.intake of source s1 called by itself, lines 40-41: created_on is
\* use_created_on when the caller supplies one, now() otherwise (0 is None)
IntakeAt(listing, use_created_on) ==
    /\ pc = "idle"
    /\ nextStage <= MaxCycles
    /\ LET created_on == IF use_created_on # 0 THEN use_created_on
                         ELSE lastNow["s1"] + 1
       IN /\ cur' = [NoCycle EXCEPT !.source_id = "s1", !.stage_id = nextStage,
                                    !.created_on = created_on,
                                    !.listing = listing, !.todo = listing,
                                    !.ingest = FALSE]
          /\ lastNow' = IF use_created_on # 0 THEN lastNow
                        ELSE [lastNow EXCEPT !["s1"] = created_on]
    /\ nextStage' = nextStage + 1
    /\ pc' = "stage"
    /\ UNCHANGED <<stage, artifact, generation, ret, nextId, born, dvars, tvars, wvars, pvars>>

IntakeNext ==
    \/ \E l \in Listings(Min(MaxItems - Len(stage), LongestListing)) :
       \E use_created_on \in 0..MaxCycles : IntakeAt(l, use_created_on)
    \/ StageBatch
    \/ DetectChanges
    \/ PromoteBatch
    \/ PromoteBatchError
    \/ ReturnGeneration

IntakeSpec == Init /\ [][IntakeNext]_vars

\* C37: an intake cycle that promotes returns the generation it created:
\* the generation_id it returns is the microseconds of the cycle's
\* created_on, also when the caller supplied it, and is greater than every
\* earlier generation_id of the source
C37_ReturnsCreated ==
    [][ (pc = "promote" /\ pc' = "idle" /\ ret'.kind = "generation")
        => /\ ret'.generation_id = UnixMicros(cur.created_on)
           /\ cur.latest.found => ret'.generation_id > cur.latest.generation_id
      ]_vars


\* C38: no step of intake removes a stage row or touches a row of another
\* stage_id, and a cycle decides and promotes as if the stage table held
\* the rows of its own stage_id only: the outcome of change detection
\* follows the two counts taken over its own rows, and a promoted batch
\* adds the artifact and generation rows the passes yield on its own rows
C38_StageRetained ==
    [][ LET own == {i \in DOMAIN stage : stage[i].stage_id = cur.stage_id}
            only == SelectSeq(stage, LAMBDA r : r.stage_id = cur.stage_id)
            latest == GetLatestGeneration(cur.source_id)
            bound == BoundRows(cur.source_id, latest.generation_id)
            same(r, a) == r.external_id = a.external_id /\ r.version = a.version
            inserted_updated ==
                Cardinality({i \in own : ~ \E ga \in bound : same(stage[i], ga[2])})
            deleted == Cardinality({ga \in bound : ~ \E i \in own : same(stage[i], ga[2])})
            idxs == BatchIndexes(only, cur.stage_id, cur.source_id, cur.batch_id)
            st1 == Pass1(only, artifact, idxs)
        IN /\ Len(stage') >= Len(stage)
           /\ \A i \in DOMAIN stage :
                 /\ [stage'[i] EXCEPT !.artifact_id = 0] = [stage[i] EXCEPT !.artifact_id = 0]
                 /\ i \notin own => stage'[i] = stage[i]
           /\ (pc = "stage" /\ pc' # "stage")
              => ( pc' = "promote"
                   <=> /\ cur.batch_id > 0
                       /\ ~ (latest.found /\ inserted_updated = 0 /\ deleted = 0) )
           /\ (pc = "promote" /\ cur'.batch_id = cur.batch_id + 1)
              => /\ artifact' = artifact \cup Pass2(st1, artifact, idxs)
                 /\ generation' = generation \cup Pass3(st1, idxs)
      ]_vars

\* a cycle has promoted while the stage table held rows of an earlier cycle
\* of the same source with a tuple that is not in its own listing
C38_Witness ==
    /\ pc = "idle"
    /\ ret.kind = "generation"
    /\ \E i \in DOMAIN stage :
          /\ stage[i].stage_id # cur.stage_id
          /\ stage[i].source_id = cur.source_id
          /\ \A j \in DOMAIN stage :
                stage[j].stage_id = cur.stage_id
                => <<stage[j].external_id, stage[j].version>>
                      # <<stage[i].external_id, stage[i].version>>
====
